---- MODULE Spec2Model ----
(***************************************************************************)
(* Payment-state reconciliation and refund workflow of the Vivid Tweaks    *)
(* storefront bot.  Two revisions of the service are modelled side by      *)
(* side: variant "base" is src/index.js (no Entitlement Ledger), variant   *)
(* "ent" is the entitlement-gated revision in src/unnamed/part_000 (lines  *)
(* 1330-2798).  Both share one document store, one payment processor and   *)
(* one chat guild.                                                          *)
(*                                                                         *)
(* Every await of a handler that touches shared state is a step of its     *)
(* own, so concurrent handlers interleave exactly where the code yields.   *)
(***************************************************************************)
EXTENDS Integers, Sequences, FiniteSets, TLC

(* ------------------------------ bounds -------------------------------- *)
\* number of checkout initiations (buy / upgrade) in a behaviour
MaxCheckouts == 2
\* number of webhook deliveries (first deliveries, duplicates, forgeries)
MaxDeliveries == 2
\* number of /refund commands that file a request
MaxRefundRequests == 2
\* number of approve / reject button presses that get past the approver check
MaxRefundActions == 2
\* number of handler invocations of all kinds together
MaxInvocations == 5
\* number of clock advances
MaxTicks == 2
\* number of webhook invocations in which an external call fails
MaxFaults == 1
\* total number of handler invocations in a behaviour with a failing call
MaxFaultyInvocations == 3
\* number of ticket open / close handler invocations
MaxTicketOps == 3
\* number of getConfig / upsertConfig calls
MaxConfigOps == 4
\* length of the amount strings that are tried exhaustively
MaxAmountLen == 5
\* number of isCooling calls
MaxCoolCalls == 3
\* number of clock advances between isCooling calls
MaxCoolTicks == 3

(* ------------------------- program constants -------------------------- *)
ALLOWED_GUILD_ID == "guild"
REFUND_APPROVER_USER_ID == "approver"
REFUND_WINDOW_MS == 24 * 60 * 60 * 1000
\* one clock advance, in ms: a full refund window
TickMs == REFUND_WINDOW_MS
PLAN_KEYS == <<"one_time", "monthly", "annual", "lifetime">>

\* The catalog: one product that grants role1; annual is not priced.
ProductId == "prod1"
ProductRole == "role1"
ProductPrices == [one_time |-> 999, monthly |-> 499, annual |-> 0, lifetime |-> 19999]

\* Members of the guild.  admin1 holds the Administrator permission; the
\* designated approver and the buyer do not.
Buyers == {"u1"}
Admins == {"admin1"}
Actors == {"u1", "admin1", REFUND_APPROVER_USER_ID}

isAdmin(actor) == actor \in Admins

VARIABLES
    variant,         \* "base" | "ent": which revision is deployed
    now,             \* Date.now(), ms
    sessions,        \* processor: checkout sessions, session id = index
    stripeRefunds,   \* processor: refunds created (payment intent of each), refund id = index
    canceledSubs,    \* processor: subscriptions cancelled
    purchases,       \* store: purchases collection, in insertion order
    entitlements,    \* store: entitlements collection (variant ent)
    refundRequests,  \* store: refund_requests collection
    roles,           \* guild: <<member, role>> pairs held
    checkouts,       \* checkout initiators, one record per invocation
    deliveries,      \* webhook handler invocations
    refundActions,   \* refund approve / reject handler invocations
    tickets,         \* store: tickets collection, in insertion order
    channels,        \* guild: ids of the ticket channels that exist
    ticketOps,       \* ticket open / close handler invocations
    configStore,     \* store: the guild's document in the config collection
    configCache,     \* process memory: configCache entry of the guild
    configOps,       \* getConfig / upsertConfig invocations
    amountStr,       \* the string handed to amountToMinorUnits
    amountOut,       \* what the amount codec returned for it
    refusals,        \* approve / reject presses answered "not allowed"
    cooldown,        \* process memory: the cooldown Map, key -> time of the last accepted call
    coolCalls        \* calls of isCooling: key, time and what it returned

ticketVars == <<tickets, channels, ticketOps>>
configVars == <<configStore, configCache, configOps>>
amountVars == <<amountStr, amountOut>>
guardVars == <<refusals, cooldown, coolCalls>>
\* everything outside the payment and refund workflow
idleVars == <<ticketVars, configVars, amountVars, guardVars>>
paymentVars == <<sessions, stripeRefunds, canceledSubs, purchases, entitlements,
                 refundRequests, roles, checkouts, deliveries, refundActions>>

vars == <<variant, now, sessions, stripeRefunds, canceledSubs, purchases, entitlements,
          refundRequests, roles, checkouts, deliveries, refundActions,
          tickets, channels, ticketOps, configStore, configCache, configOps,
          amountStr, amountOut, refusals, cooldown, coolCalls>>

\* sub.current_period_end as stripe.subscriptions.retrieve reports it at the
\* purchase: the end of the first billing period.
FirstPeriodEnd == 1

(* ------------------------------ helpers ------------------------------- *)
\* The external calls of the webhook handler that can fail: the processor's
\* subscriptions.retrieve, a store operation, the guild fetch, the member fetch
\* and role add / remove, the DM, resolving or creating the log channel
\* (ensurePurchaseLogChannel), ch.send of the log, getConfig of the thanks
\* message, ch.send of the thanks message.  "none": no call fails.
Faults ==
    {"none", "processor", "store", "guild_fetch", "role_grant", "role_remove", "dm",
     "log_channel", "log_send", "thanks_config", "thanks_send"}

\* The calls a handler makes up to and including a store write.
ReceiveFaults == {"none", "processor", "store"}

\* Webhook invocations so far in which an external call failed.
FaultCount == Cardinality({d \in DOMAIN deliveries : deliveries[d].faults # {}})

\* Handler invocations so far.
Invocations ==
    Len(checkouts) + Len(deliveries) + Len(refundRequests) + Len(refundActions) + refusals

\* Another handler may still be invoked in this behaviour.
CanInvoke ==
    Invocations < (IF FaultCount > 0 THEN MaxFaultyInvocations ELSE MaxInvocations)

\* A step starting a webhook invocation may see the external call named by
\* fault fail ("none": no call fails).
CanFault(fault) ==
    fault = "none" \/ (FaultCount < MaxFaults /\ Invocations < MaxFaultyInvocations)

\* A later step of webhook invocation d may see the call named by fault fail.
CanFaultIn(d, fault) ==
    \/ fault = "none"
    \/ deliveries[d].faults # {}
    \/ (FaultCount < MaxFaults /\ Invocations <= MaxFaultyInvocations)

\* Index of the first document among those matching a filter, 0 when none
\* matches (findOne / updateOne act on the first match in natural order).
FirstMatch(matching) ==
    IF matching = {} THEN 0
    ELSE CHOOSE i \in matching : \A j \in matching : i <= j

\* planKey === "monthly" || planKey === "annual"
isSubscription(planKey) == planKey \in {"monthly", "annual"}

\* product.prices?.[planKey]?.amountMinor is truthy
planEnabled(planKey) == ProductPrices[planKey] > 0

(* ---------------------------- entitlements ---------------------------- *)
NoEntitlement ==
    [planKey |-> "none", userId |-> "none", productId |-> "none", status |-> "none",
     referenceCode |-> "none", lastPurchaseId |-> 0, stripeSubscriptionId |-> 0]

getEntitlement(userId, productId) ==
    LET i == FirstMatch({j \in DOMAIN entitlements :
                            /\ entitlements[j].userId = userId
                            /\ entitlements[j].productId = productId})
    IN IF i = 0 THEN NoEntitlement ELSE entitlements[i]

\* Faulty gate: an upgrade does not look at the subscription reference.
canStartCheckoutIgnoringSubscription(ent, planKey, isUpgrade) ==
    IF ent = NoEntitlement \/ ent.status # "active" THEN TRUE
    ELSE IF ent.planKey = "lifetime" THEN FALSE
    ELSE isUpgrade /\ ent.planKey = "one_time" /\ planKey \in {"monthly", "annual"}

\* Faulty gate: only upgrade attempts are checked against the entitlement.
canStartCheckoutUpgradesOnly(ent, planKey, isUpgrade) ==
    \/ ~isUpgrade
    \/ ent = NoEntitlement
    \/ ent.status # "active"
    \/ /\ ent.planKey = "one_time"
       /\ planKey \in {"monthly", "annual"}
       /\ ent.stripeSubscriptionId = 0

\* The ownership gate, computed on an entitlement document (NoEntitlement = null).
canStartCheckoutOn(ent, planKey, isUpgrade) ==
    IF ent = NoEntitlement \/ ent.status # "active" THEN TRUE
    ELSE IF ent.planKey = "lifetime" THEN FALSE
    ELSE IF isUpgrade
         THEN IF ent.planKey # "one_time" THEN FALSE
              ELSE IF ~(planKey = "monthly" \/ planKey = "annual") THEN FALSE
              ELSE IF ent.stripeSubscriptionId # 0 THEN FALSE
              ELSE TRUE
    ELSE FALSE

canStartCheckout(userId, productId, planKey, isUpgrade) ==
    canStartCheckoutOn(getEntitlement(userId, productId), planKey, isUpgrade)

(* ------------------------- checkout initiation ------------------------ *)
\* stripe.checkout.sessions.create: the session carries the metadata bag.
NewSession(userId, planKey, purchaseId) ==
    [purchase_id |-> purchaseId, guild_id |-> ALLOWED_GUILD_ID, user_id |-> userId,
     type |-> "product", product_id |-> ProductId, plan_key |-> planKey,
     role_id |-> ProductRole, reference_code |-> "none",
     mode |-> IF isSubscription(planKey) THEN "subscription" ELSE "payment"]

\* The handler up to and including stripe.checkout.sessions.create.
\* base: the tp: button.  ent: the buy: button (isUpgrade FALSE) and the
\* /upgrade command and upgrade: button (isUpgrade TRUE), each behind the gate.
\* A denied attempt replies and changes nothing.
StartCheckout(userId, planKey, isUpgrade) ==
    /\ CanInvoke
    /\ Len(checkouts) < MaxCheckouts
    /\ planEnabled(planKey)
    /\ variant = "base" => ~isUpgrade
    /\ variant = "ent" /\ isUpgrade =>
          /\ planKey \in {"monthly", "annual"}
          /\ LET ent == getEntitlement(userId, ProductId)
             IN ent # NoEntitlement /\ ent.status = "active" /\ ent.planKey = "one_time"
    /\ variant = "ent" => canStartCheckout(userId, ProductId, planKey, isUpgrade)
    /\ LET purchaseId == Len(sessions) + 1
           sid == Len(sessions) + 1
       IN /\ sessions' = Append(sessions, NewSession(userId, planKey, purchaseId))
          /\ checkouts' = Append(checkouts,
                [userId |-> userId, planKey |-> planKey, isUpgrade |-> isUpgrade,
                 purchaseId |-> purchaseId, sessionId |-> sid, pc |-> "insert",
                 url |-> FALSE])
    /\ UNCHANGED <<variant, idleVars, now, stripeRefunds, canceledSubs, purchases, entitlements,
                   refundRequests, roles, deliveries, refundActions>>

\* The document createCheckoutSessionForProduct inserts.
CreatedRowWithoutSession(c) ==
    [purchaseId |-> c.purchaseId, guildId |-> ALLOWED_GUILD_ID, userId |-> c.userId,
     type |-> "product", productId |-> ProductId, planKey |-> c.planKey,
     roleId |-> ProductRole, stripeSessionId |-> 0, status |-> "created",
     paidAt |-> -1, stripePaymentIntentId |-> 0, stripeSubscriptionId |-> 0,
     subscriptionStatus |-> "none", cancelAtPeriodEnd |-> FALSE, currentPeriodEnd |-> -1,
     subscriptionEndedAt |-> -1, stripeRefundId |-> 0]

CreatedRow(c) ==
    [purchaseId |-> c.purchaseId, guildId |-> ALLOWED_GUILD_ID, userId |-> c.userId,
     type |-> "product", productId |-> ProductId, planKey |-> c.planKey,
     roleId |-> ProductRole, stripeSessionId |-> c.sessionId, status |-> "created",
     paidAt |-> -1, stripePaymentIntentId |-> 0, stripeSubscriptionId |-> 0,
     subscriptionStatus |-> "none", cancelAtPeriodEnd |-> FALSE, currentPeriodEnd |-> -1,
     subscriptionEndedAt |-> -1, stripeRefundId |-> 0]

\* Faulty store: the collection has no unique index.
DuplicateKeyNever(col, doc) == FALSE

\* The unique indexes on purchaseId and (sparse) stripeSessionId.
DuplicateKey(col, doc) ==
    \E i \in DOMAIN col :
        \/ col[i].purchaseId = doc.purchaseId
        \/ col[i].stripeSessionId = doc.stripeSessionId

\* purchasesCol.insertOne, then return session.url.  A duplicate key makes
\* insertOne throw: the handler replies with an error and no URL.
InsertPurchase(c) ==
    /\ c \in DOMAIN checkouts
    /\ checkouts[c].pc = "insert"
    /\ IF DuplicateKey(purchases, CreatedRow(checkouts[c]))
       THEN /\ checkouts' = [checkouts EXCEPT ![c].pc = "failed"]
            /\ UNCHANGED purchases
       ELSE /\ purchases' = Append(purchases, CreatedRow(checkouts[c]))
            /\ checkouts' = [checkouts EXCEPT ![c].pc = "done", ![c].url = TRUE]
    /\ UNCHANGED <<variant, idleVars, now, sessions, stripeRefunds, canceledSubs, entitlements,
                   refundRequests, roles, deliveries, refundActions>>

(* ------------------------------- webhook ------------------------------ *)
NoEvent ==
    [purchase_id |-> 0, guild_id |-> "none", user_id |-> "none", type |-> "none",
     product_id |-> "none", plan_key |-> "none", role_id |-> "none",
     reference_code |-> "none", verified |-> FALSE, id |-> 0, mtype |-> "none",
     payment_intent |-> 0, subscription |-> 0, sub_status |-> "none", cancel |-> FALSE,
     period_end |-> -1]

\* The checkout.session.completed event the processor signs for session s.
CompletedEvent(s) ==
    [purchase_id |-> sessions[s].purchase_id, guild_id |-> sessions[s].guild_id,
     user_id |-> sessions[s].user_id, type |-> "checkout.session.completed",
     product_id |-> sessions[s].product_id, plan_key |-> sessions[s].plan_key,
     role_id |-> sessions[s].role_id, reference_code |-> sessions[s].reference_code,
     verified |-> TRUE, id |-> s, mtype |-> sessions[s].type,
     payment_intent |-> IF sessions[s].mode = "payment" THEN s ELSE 0,
     subscription |-> IF sessions[s].mode = "subscription" THEN s ELSE 0,
     sub_status |-> "none", cancel |-> FALSE, period_end |-> -1]

\* A request body not signed by the processor: it names any session id and
\* any purchase id.
ForgedEvent(s, p) ==
    [purchase_id |-> p, guild_id |-> ALLOWED_GUILD_ID, user_id |-> "u1",
     type |-> "checkout.session.completed", product_id |-> ProductId,
     plan_key |-> "lifetime", role_id |-> ProductRole, reference_code |-> "none",
     verified |-> FALSE, id |-> s, mtype |-> "product", payment_intent |-> s,
     subscription |-> 0, sub_status |-> "none", cancel |-> FALSE, period_end |-> -1]

\* Session id of a checkout session on the processor account that this
\* service did not create (session.id of such an event).
ForeignSessionId == 99

\* What the metadata of a foreign checkout session can lack or get wrong.
ForeignMetadata == {"purchase_id", "guild_id", "user_id", "type", "other_guild"}

\* A signed checkout.session.completed event whose metadata lacks one of the
\* required fields (missing names it), or names another guild ("other_guild").
ForeignEvent(missing) ==
    [purchase_id |-> IF missing = "purchase_id" THEN 0 ELSE ForeignSessionId,
     guild_id |-> IF missing = "guild_id" THEN "none"
                  ELSE IF missing = "other_guild" THEN "other" ELSE ALLOWED_GUILD_ID,
     user_id |-> IF missing = "user_id" THEN "none" ELSE "u1",
     type |-> "checkout.session.completed", product_id |-> ProductId,
     plan_key |-> "lifetime", role_id |-> ProductRole, reference_code |-> "none",
     verified |-> TRUE, id |-> ForeignSessionId,
     mtype |-> IF missing = "type" THEN "none" ELSE "product",
     payment_intent |-> ForeignSessionId, subscription |-> 0, sub_status |-> "none",
     cancel |-> FALSE, period_end |-> -1]

\* A signed customer.subscription.* event for subscription sub; snapshot is
\* the subscription object's status, cancel_at_period_end and
\* current_period_end.
SubscriptionEvent(type, sub, snapshot) ==
    [purchase_id |-> 0, guild_id |-> "none", user_id |-> "none", type |-> type,
     product_id |-> "none", plan_key |-> "none", role_id |-> "none",
     reference_code |-> "none", verified |-> TRUE, id |-> 0, mtype |-> "none",
     payment_intent |-> 0, subscription |-> sub, sub_status |-> snapshot.status,
     cancel |-> snapshot.cancel, period_end |-> snapshot.period_end]

\* Subscription objects the processor reports in customer.subscription.updated:
\* a renewal that failed after the buyer asked to cancel at the period's end.
SubscriptionSnapshots ==
    {[status |-> "past_due", cancel |-> TRUE, period_end |-> FirstPeriodEnd + 1]}

\* A signed event of a type the handler has no branch for.
UnknownEvent ==
    [purchase_id |-> ForeignSessionId, guild_id |-> ALLOWED_GUILD_ID, user_id |-> "u1",
     type |-> "invoice.paid", product_id |-> ProductId, plan_key |-> "lifetime",
     role_id |-> ProductRole, reference_code |-> "none", verified |-> TRUE,
     id |-> ForeignSessionId, mtype |-> "product", payment_intent |-> ForeignSessionId,
     subscription |-> 0, sub_status |-> "none", cancel |-> FALSE, period_end |-> -1]

\* Faulty metadata validation: nothing is required.
metadataValidAlways(ev) == TRUE

\* if (!purchaseId || !guildId || !userId || !type) return ...;
\* if (guildId !== ALLOWED_GUILD_ID) return ...;
metadataValid(ev) ==
    /\ ev.purchase_id # 0
    /\ ev.guild_id # "none"
    /\ ev.user_id # "none"
    /\ ev.mtype # "none"
    /\ ev.guild_id = ALLOWED_GUILD_ID

\* Faulty dispatch: every signed event is processed as a completed checkout.
eventBranchAlwaysCompleted(ev) == "completed"

\* The branch of the handler an event type selects; "default" is the final
\* return res.json({received: true}).
eventBranch(ev) ==
    IF ev.type = "checkout.session.completed" THEN "completed"
    ELSE IF variant = "base" /\ ev.type = "customer.subscription.updated" THEN "sub_updated"
    ELSE IF variant = "base" /\ ev.type = "customer.subscription.deleted" THEN "sub_deleted"
    ELSE "default"

\* Faulty signature check: a body is refused only when it cannot be parsed.
constructEventParseOnly(body) == IF body.type = "none" THEN NoEvent ELSE body

\* Faulty signature check: every body is taken as an event.
constructEventUnchecked(body) == body

\* stripe.webhooks.constructEvent: the event, or NoEvent when it throws.
constructEvent(body) == IF body.verified THEN body ELSE NoEvent

\* sub.status as stripe.subscriptions.retrieve reports it.
SubStatus(subscriptionId) ==
    IF subscriptionId = 0 THEN "none"
    ELSE IF subscriptionId \in canceledSubs THEN "canceled" ELSE "active"

\* The $set of a paid event (both revisions; ent adds planKey and productId).
SetPaid(row, ev) ==
    LET r == [row EXCEPT !.status = "paid", !.paidAt = now,
                         !.stripePaymentIntentId = ev.payment_intent,
                         !.stripeSubscriptionId = ev.subscription,
                         !.subscriptionStatus = SubStatus(ev.subscription),
                         !.cancelAtPeriodEnd = FALSE,
                         !.currentPeriodEnd =
                             IF ev.subscription = 0 THEN -1 ELSE FirstPeriodEnd]
    IN IF variant = "ent"
       THEN [r EXCEPT !.planKey = ev.plan_key, !.productId = ev.product_id]
       ELSE r

\* The document an upsert inserts: the filter's equality fields, then $setOnInsert.
\* The reconstructed row carries neither the role nor, in base, product and plan.
InsertedRow(ev) ==
    [purchaseId |-> ev.purchase_id, guildId |-> ev.guild_id, userId |-> ev.user_id,
     type |-> ev.mtype, productId |-> "none", planKey |-> "none", roleId |-> "none",
     stripeSessionId |-> ev.id, status |-> "none", paidAt |-> -1,
     stripePaymentIntentId |-> 0, stripeSubscriptionId |-> 0,
     subscriptionStatus |-> "none", cancelAtPeriodEnd |-> FALSE, currentPeriodEnd |-> -1,
     subscriptionEndedAt |-> -1, stripeRefundId |-> 0]

\* Faulty upsert: inserts even when the filter matched a document.
UpsertPaidAlwaysInserts(col, i, ev) ==
    Append(col, SetPaid(InsertedRow(ev), ev))

\* updateOne(filter, {$setOnInsert, $set}, {upsert: true}) on purchases, i the
\* first document the filter matches (0: none, so the upsert inserts).
UpsertPaid(col, i, ev) ==
    IF i = 0
    THEN Append(col, SetPaid(InsertedRow(ev), ev))
    ELSE [col EXCEPT ![i] = SetPaid(col[i], ev)]

\* An upsert that matches nothing inserts; the insert throws when it collides
\* with a unique index.
UpsertThrows(col, i, ev) ==
    i = 0 /\ DuplicateKey(col, InsertedRow(ev))

\* No purchase document (null).
NoPurchase ==
    [planKey |-> "none", userId |-> "none", productId |-> "none", status |-> "none",
     stripeSubscriptionId |-> 0, purchaseId |-> 0, type |-> "none", guildId |-> "none",
     roleId |-> "none", stripeSessionId |-> 0, paidAt |-> -1, stripePaymentIntentId |-> 0,
     subscriptionStatus |-> "none", cancelAtPeriodEnd |-> FALSE, currentPeriodEnd |-> -1,
     subscriptionEndedAt |-> -1, stripeRefundId |-> 0]

\* A webhook invocation: the event it received, where it stands, the HTTP
\* status it answered (0: none yet), the external calls that failed in it,
\* (subscription.deleted) the purchase it looked up, and whether the purchase
\* the event names was on record as refunded when the event arrived.
Delivery(ev, pc, resp, faults) ==
    [ev |-> ev, pc |-> pc, resp |-> resp, faults |-> faults, purchase |-> NoPurchase,
     dm |-> FALSE,
     afterRefund |-> \E j \in DOMAIN purchases :
                        /\ purchases[j].purchaseId = ev.purchase_id
                        /\ purchases[j].status = "refunded"]

\* The faults recorded once this step's fault is added.
WithFault(faults, fault) == IF fault = "none" THEN faults ELSE faults \cup {fault}

\* Faulty error handling: a failed role grant is not caught.
swallowedExceptRoleGrant(call) ==
    call \in {"role_remove", "dm", "log_send", "thanks_send"}

\* Calls wrapped in a try / catch or .catch(() => {}) that ignores the failure:
\* member fetch and roles.add, roles.remove, the DM, ch.send of the log and
\* of the thanks message.  Everything else throws to the handler's outer
\* catch, which answers 500.
swallowed(call) ==
    call \in {"role_grant", "role_remove", "dm", "log_send", "thanks_send"}

\* The status the handler answers when it runs to its end with this failure.
Respond(fault) == IF fault = "none" \/ swallowed(fault) THEN 200 ELSE 500

\* The checkout.session.completed branch up to its first store write:
\* subscription retrieve, then
\*   base: findOneAndUpdate({purchaseId, stripeSessionId}, $set paid)
\*   ent:  updateOne({purchaseId, stripeSessionId}, ..., {upsert: true}).
ReceiveCompleted(ev, fault) ==
    LET i == FirstMatch({j \in DOMAIN purchases :
                            /\ purchases[j].purchaseId = ev.purchase_id
                            /\ purchases[j].stripeSessionId = ev.id})
    IN /\ fault \in {"none", "store"} \cup (IF ev.subscription # 0 THEN {"processor"} ELSE {})
       /\ IF fault # "none"
          THEN /\ deliveries' = Append(deliveries, Delivery(ev, "done", Respond(fault), {fault}))
               /\ UNCHANGED purchases
          ELSE IF variant = "ent"
          THEN IF UpsertThrows(purchases, i, ev)
               THEN /\ deliveries' = Append(deliveries, Delivery(ev, "done", 500, {}))
                    /\ UNCHANGED purchases
               ELSE /\ purchases' = UpsertPaid(purchases, i, ev)
                    /\ deliveries' = Append(deliveries, Delivery(ev, "role", 0, {}))
          ELSE IF i = 0
          THEN /\ UNCHANGED purchases
               /\ deliveries' = Append(deliveries, Delivery(ev, "fallback", 0, {}))
          ELSE /\ purchases' = [purchases EXCEPT ![i] = SetPaid(purchases[i], ev)]
               /\ deliveries' = Append(deliveries, Delivery(ev, "role", 0, {}))

\* Faulty $set: refreshes the status of the subscription only.
SetSubscriptionStatusOnly(row, ev) ==
    [row EXCEPT !.subscriptionStatus = ev.sub_status]

\* The $set of customer.subscription.updated.
SetSubscription(row, ev) ==
    [row EXCEPT !.subscriptionStatus = ev.sub_status, !.cancelAtPeriodEnd = ev.cancel,
                !.currentPeriodEnd = ev.period_end]

\* base, customer.subscription.updated:
\* updateMany({stripeSubscriptionId: sub.id, status: "paid"}, {$set: ...}).
ReceiveSubscriptionUpdated(ev, fault) ==
    /\ fault \in {"none", "store"}
    /\ IF fault # "none"
       THEN /\ deliveries' = Append(deliveries, Delivery(ev, "done", Respond(fault), {fault}))
            /\ UNCHANGED purchases
       ELSE /\ purchases' =
                  [j \in DOMAIN purchases |->
                      IF /\ purchases[j].stripeSubscriptionId = ev.subscription
                         /\ purchases[j].status = "paid"
                      THEN SetSubscription(purchases[j], ev)
                      ELSE purchases[j]]
            /\ deliveries' = Append(deliveries, Delivery(ev, "done", 200, {}))

\* findOne({stripeSubscriptionId, status: "paid", type: "product"},
\*         {sort: {paidAt: -1}}), NoPurchase for null.
findSubscriptionPurchase(subscriptionId) ==
    LET matching == {j \in DOMAIN purchases :
                        /\ purchases[j].stripeSubscriptionId = subscriptionId
                        /\ purchases[j].status = "paid"
                        /\ purchases[j].type = "product"}
        latest == {j \in matching : \A k \in matching : purchases[k].paidAt <= purchases[j].paidAt}
    IN IF matching = {} THEN NoPurchase ELSE purchases[FirstMatch(latest)]

\* base, customer.subscription.deleted up to its findOne.
ReceiveSubscriptionDeleted(ev, fault) ==
    /\ fault \in {"none", "store"}
    /\ UNCHANGED purchases
    /\ IF fault # "none"
       THEN deliveries' = Append(deliveries, Delivery(ev, "done", Respond(fault), {fault}))
       ELSE LET purchase == findSubscriptionPurchase(ev.subscription)
            IN deliveries' = Append(deliveries,
                   [Delivery(ev, IF purchase = NoPurchase THEN "sub_mark" ELSE "sub_role", 0, {})
                       EXCEPT !.purchase = purchase])

\* POST /stripe/webhook up to its first store operation: signature check,
\* dispatch on the event type, metadata validation, first read or write.
\* A bad signature is answered 400; a throw inside the handler 500.
WebhookReceive(body, fault) ==
    /\ Len(deliveries) < MaxDeliveries
    /\ CanInvoke
    /\ CanFault(fault)
    /\ LET ev == constructEvent(body)
       IN IF ev = NoEvent
          THEN /\ fault = "none"
               /\ deliveries' = Append(deliveries, Delivery(NoEvent, "done", 400, {}))
               /\ UNCHANGED purchases
          ELSE IF eventBranch(ev) = "default"
                  \/ (eventBranch(ev) = "completed" /\ ~metadataValid(ev))
          THEN /\ fault = "none"
               /\ deliveries' = Append(deliveries, Delivery(ev, "done", 200, {}))
               /\ UNCHANGED purchases
          ELSE IF eventBranch(ev) = "completed" THEN ReceiveCompleted(ev, fault)
          ELSE IF eventBranch(ev) = "sub_updated" THEN ReceiveSubscriptionUpdated(ev, fault)
          ELSE ReceiveSubscriptionDeleted(ev, fault)
    /\ UNCHANGED <<variant, idleVars, now, sessions, stripeRefunds, canceledSubs, entitlements,
                   refundRequests, roles, checkouts, refundActions>>

\* The processor delivers (or redelivers) the completed event of a session.
WebhookDeliver(s, fault) ==
    /\ s \in DOMAIN sessions
    /\ WebhookReceive(CompletedEvent(s), fault)

\* Anyone can post a body that the processor did not sign.
WebhookForged(s, p) ==
    /\ s \in 1..MaxCheckouts
    /\ p \in 1..MaxCheckouts
    /\ WebhookReceive(ForgedEvent(s, p), "none")

\* The processor delivers a signed completed event of a session that carries
\* incomplete metadata or belongs to another guild.
WebhookForeign(missing) ==
    /\ missing \in ForeignMetadata
    /\ WebhookReceive(ForeignEvent(missing), "none")

\* The processor delivers a signed event of a type without a branch.
WebhookUnknown ==
    WebhookReceive(UnknownEvent, "none")

\* The processor reports a change of the subscription of a paid session.
WebhookSubscriptionUpdated(s, snapshot, fault) ==
    /\ s \in DOMAIN sessions
    /\ sessions[s].mode = "subscription"
    /\ WebhookReceive(SubscriptionEvent("customer.subscription.updated", s, snapshot), fault)

\* The processor reports that the subscription of a session has ended.
WebhookSubscriptionDeleted(s, fault) ==
    /\ s \in DOMAIN sessions
    /\ sessions[s].mode = "subscription"
    /\ WebhookReceive(SubscriptionEvent("customer.subscription.deleted", s,
                                        [status |-> "canceled", cancel |-> FALSE,
                                         period_end |-> FirstPeriodEnd]), fault)

\* base: if (!updated.value) updateOne({stripeSessionId}, ..., {upsert: true}).
WebhookFallback(d, fault) ==
    /\ d \in DOMAIN deliveries
    /\ deliveries[d].pc = "fallback"
    /\ CanFaultIn(d, fault)
    /\ fault \in {"none", "store"}
    /\ LET ev == deliveries[d].ev
           i == FirstMatch({j \in DOMAIN purchases : purchases[j].stripeSessionId = ev.id})
       IN IF fault # "none" \/ UpsertThrows(purchases, i, ev)
          THEN /\ deliveries' = [deliveries EXCEPT ![d].pc = "done", ![d].resp = 500,
                                     ![d].faults = WithFault(@, fault)]
               /\ UNCHANGED purchases
          ELSE /\ purchases' = UpsertPaid(purchases, i, ev)
               /\ deliveries' = [deliveries EXCEPT ![d].pc = "role"]
    /\ UNCHANGED <<variant, idleVars, now, sessions, stripeRefunds, canceledSubs, entitlements,
                   refundRequests, roles, checkouts, refundActions>>

\* guild fetch (a failure ends the handler with {received: true}), then
\* member.roles.add(meta.role_id) for a product purchase inside its try / catch.
\* ent goes on to the entitlement upsert of a product purchase; otherwise the
\* handler ends with the purchase log (and in base the thanks message).
WebhookGrantRole(d, fault) ==
    /\ d \in DOMAIN deliveries
    /\ deliveries[d].pc = "role"
    /\ CanFaultIn(d, fault)
    /\ LET ev == deliveries[d].ev
           toEntitlement == variant = "ent" /\ ev.mtype = "product" /\ ev.product_id # "none"
       IN /\ fault \in {"none", "guild_fetch", "role_grant"} \cup
                 (IF toEntitlement THEN {}
                  ELSE IF variant = "base"
                       THEN {"log_channel", "log_send", "thanks_config", "thanks_send"}
                       ELSE {"log_channel", "log_send"})
          /\ roles' = IF /\ ev.mtype = "product" /\ ev.role_id # "none"
                         /\ fault \notin {"guild_fetch", "role_grant"}
                      THEN roles \cup {<<ev.user_id, ev.role_id>>}
                      ELSE roles
          /\ deliveries' =
                IF fault = "guild_fetch"
                THEN [deliveries EXCEPT ![d].pc = "done", ![d].resp = 200,
                                        ![d].faults = WithFault(@, fault)]
                ELSE IF fault = "role_grant" /\ ~swallowed(fault)
                THEN [deliveries EXCEPT ![d].pc = "done", ![d].resp = 500,
                                        ![d].faults = WithFault(@, fault)]
                ELSE IF toEntitlement
                THEN [deliveries EXCEPT ![d].pc = "entitlement",
                                        ![d].faults = WithFault(@, fault)]
                ELSE [deliveries EXCEPT ![d].pc = "done", ![d].resp = Respond(fault),
                                        ![d].faults = WithFault(@, fault)]
    /\ UNCHANGED <<variant, idleVars, now, sessions, stripeRefunds, canceledSubs, purchases,
                   entitlements, refundRequests, checkouts, refundActions>>

\* The entitlement document a paid event writes.
PaidEntitlement(ev) ==
    [userId |-> ev.user_id, productId |-> ev.product_id, status |-> "active",
     planKey |-> ev.plan_key, referenceCode |-> ev.reference_code,
     lastPurchaseId |-> ev.purchase_id,
     stripeSubscriptionId |-> ev.subscription]

\* The filter {guildId, userId, productId} of the entitlement upsert: the
\* index of the first matching row, 0 when none matches.
entitlementIndex(col, ev) ==
    FirstMatch({j \in DOMAIN col :
                   col[j].userId = ev.user_id /\ col[j].productId = ev.product_id})

\* Faulty write: an insert on every delivery.
UpsertEntitlementAlwaysInserts(col, i, ev) == Append(col, PaidEntitlement(ev))

\* updateOne(filter, {$set: ...}, {upsert: true}) on the entitlements, where i
\* is the index of the first row matching the filter (0: none).
UpsertEntitlement(col, i, ev) ==
    IF i = 0 THEN Append(col, PaidEntitlement(ev))
    ELSE [col EXCEPT ![i] = PaidEntitlement(ev)]

\* The upsell DM goes to the buyer of a one-time plan of a product that has
\* a monthly price; dm records that this delivery has sent it.
upsellDue(ev) == ev.plan_key = "one_time" /\ planEnabled("monthly")

\* ent: entitlementsCol.updateOne({guildId, userId, productId}, $set, {upsert: true}),
\* then the upsell DM (inside try / catch) and the purchase log, then
\* {received: true}.
WebhookEntitlement(d, fault) ==
    /\ d \in DOMAIN deliveries
    /\ deliveries[d].pc = "entitlement"
    /\ CanFaultIn(d, fault)
    /\ fault \in {"none", "store", "log_channel", "log_send"} \cup
                 (IF deliveries[d].ev.plan_key = "one_time" THEN {"dm"} ELSE {})
    /\ LET ev == deliveries[d].ev
       IN entitlements' = IF fault = "store" THEN entitlements
                          ELSE UpsertEntitlement(entitlements, entitlementIndex(entitlements, ev), ev)
    /\ deliveries' = [deliveries EXCEPT ![d].pc = "done", ![d].resp = Respond(fault),
                                        ![d].faults = WithFault(@, fault),
                                        ![d].dm = upsellDue(deliveries[d].ev)
                                                     /\ fault \notin {"store", "dm"}]
    /\ UNCHANGED <<variant, idleVars, now, sessions, stripeRefunds, canceledSubs, purchases,
                   refundRequests, roles, checkouts, refundActions>>

\* base, customer.subscription.deleted with a purchase found: guild fetch (a
\* failure skips to the final update), member.roles.remove(purchase.roleId)
\* inside its try / catch, then the "Subscription Ended" log.
WebhookSubscriptionRemoveRole(d, fault) ==
    /\ d \in DOMAIN deliveries
    /\ deliveries[d].pc = "sub_role"
    /\ CanFaultIn(d, fault)
    /\ fault \in {"none", "guild_fetch", "role_remove", "log_channel", "log_send"}
    /\ LET p == deliveries[d].purchase
       IN roles' = IF p.roleId # "none" /\ fault \notin {"guild_fetch", "role_remove"}
                   THEN roles \ {<<p.userId, p.roleId>>}
                   ELSE roles
    /\ deliveries' =
          IF fault = "guild_fetch" \/ Respond(fault) = 200
          THEN [deliveries EXCEPT ![d].pc = "sub_mark", ![d].faults = WithFault(@, fault)]
          ELSE [deliveries EXCEPT ![d].pc = "done", ![d].resp = 500,
                                  ![d].faults = WithFault(@, fault)]
    /\ UNCHANGED <<variant, idleVars, now, sessions, stripeRefunds, canceledSubs, purchases,
                   entitlements, refundRequests, checkouts, refundActions>>

\* base, customer.subscription.deleted: updateMany({stripeSubscriptionId,
\* status: "paid"}, {$set: {subscriptionStatus: "canceled", subscriptionEndedAt}}).
WebhookSubscriptionMark(d, fault) ==
    /\ d \in DOMAIN deliveries
    /\ deliveries[d].pc = "sub_mark"
    /\ CanFaultIn(d, fault)
    /\ fault \in {"none", "store"}
    /\ purchases' =
          IF fault = "store" THEN purchases
          ELSE [j \in DOMAIN purchases |->
                   IF /\ purchases[j].stripeSubscriptionId = deliveries[d].ev.subscription
                      /\ purchases[j].status = "paid"
                   THEN [purchases[j] EXCEPT !.subscriptionStatus = "canceled",
                                             !.subscriptionEndedAt = now]
                   ELSE purchases[j]]
    /\ deliveries' = [deliveries EXCEPT ![d].pc = "done", ![d].resp = Respond(fault),
                                        ![d].faults = WithFault(@, fault)]
    /\ UNCHANGED <<variant, idleVars, now, sessions, stripeRefunds, canceledSubs, entitlements,
                   refundRequests, roles, checkouts, refundActions>>

(* -------------------------------- refunds ----------------------------- *)
\* purchasesCol.findOne({purchaseId, guildId}), NoPurchase for null.
findPurchase(purchaseId) ==
    LET i == FirstMatch({j \in DOMAIN purchases :
                            /\ purchases[j].purchaseId = purchaseId
                            /\ purchases[j].guildId = ALLOWED_GUILD_ID})
    IN IF i = 0 THEN NoPurchase ELSE purchases[i]

\* Date.now() - paidAt.getTime() > REFUND_WINDOW_MS
windowExpired(paidAt) == now - paidAt > REFUND_WINDOW_MS

\* Faulty /refund checks: the refund window is not looked at.
refundCommandAllowedAnyTime(actor, purchaseId) ==
    LET purchase == findPurchase(purchaseId)
    IN /\ isAdmin(actor)
       /\ purchase # NoPurchase
       /\ purchase.status = "paid"
       /\ purchase.paidAt # -1

\* The checks of /refund before it files a request.
refundCommandAllowed(actor, purchaseId) ==
    LET purchase == findPurchase(purchaseId)
    IN /\ isAdmin(actor)
       /\ purchase # NoPurchase
       /\ purchase.status = "paid"
       /\ purchase.paidAt # -1
       /\ ~windowExpired(purchase.paidAt)

\* /refund purchase_id: files a pending request, or replies with the refusal.
RefundCommand(actor, purchaseId) ==
    /\ CanInvoke
    /\ Len(refundRequests) < MaxRefundRequests
    /\ IF refundCommandAllowed(actor, purchaseId)
       THEN refundRequests' = Append(refundRequests,
                [requestId |-> Len(refundRequests) + 1, purchaseId |-> purchaseId,
                 requestedBy |-> actor, status |-> "pending", failureReason |-> "none",
                 stripeRefundId |-> 0])
       ELSE UNCHANGED refundRequests
    /\ UNCHANGED <<variant, idleVars, now, sessions, stripeRefunds, canceledSubs, purchases,
                   entitlements, roles, checkouts, deliveries, refundActions>>

\* Faulty check: every member may press approve / reject.
isApproverAnyone(actor) == TRUE

\* Who may press approve / reject: the designated approver; ent also admits admins.
isApprover(actor) ==
    IF variant = "ent"
    THEN actor = REFUND_APPROVER_USER_ID \/ isAdmin(actor)
    ELSE actor = REFUND_APPROVER_USER_ID

\* Faulty dispatch: a reject press is not branched off.
afterReadNoRejectBranch(action) == "find_purchase"

\* Where the handler goes once the request is read and found pending: base
\* branches on reject before it looks the purchase up, ent after.
afterRead(action) ==
    IF variant = "base" /\ action = "refund_reject" THEN "reject" ELSE "find_purchase"

\* The button handler up to its read of the request: approver check,
\* refundRequestsCol.findOne, status check.  A press by someone who is not
\* an approver is answered "not allowed" before anything is read; a press
\* on a request that is no longer pending replies and changes nothing.
RefundButton(actor, action, requestId) ==
    /\ CanInvoke
    /\ Len(refundActions) < MaxRefundActions
    /\ requestId \in DOMAIN refundRequests
    /\ IF ~isApprover(actor)
       THEN /\ refusals' = refusals + 1
            /\ UNCHANGED refundActions
       ELSE IF refundRequests[requestId].status = "pending"
       THEN /\ refundActions' = Append(refundActions,
                   [actor |-> actor, action |-> action, requestId |-> requestId,
                    pc |-> afterRead(action),
                    purchase |-> NoPurchase, refundId |-> 0, outcome |-> "none"])
            /\ UNCHANGED refusals
       ELSE UNCHANGED <<refundActions, refusals>>
    /\ UNCHANGED <<variant, ticketVars, configVars, amountVars, cooldown, coolCalls, now,
                   sessions, stripeRefunds, canceledSubs, purchases, entitlements,
                   refundRequests, roles, checkouts, deliveries>>

\* refundRequestsCol.updateOne({requestId}, {$set: {status, ...}}).
SetRequest(requestId, status, reason) ==
    [refundRequests EXCEPT ![requestId].status = status,
                           ![requestId].failureReason = reason]

\* updateOne({requestId}, {$set: {status: "rejected"}}): no financial action.
RefundReject(h) ==
    /\ h \in DOMAIN refundActions
    /\ refundActions[h].pc = "reject"
    /\ refundRequests' = SetRequest(refundActions[h].requestId, "rejected", "none")
    /\ refundActions' = [refundActions EXCEPT ![h].pc = "done", ![h].outcome = "rejected"]
    /\ UNCHANGED <<variant, idleVars, now, sessions, stripeRefunds, canceledSubs, purchases,
                   entitlements, roles, checkouts, deliveries>>

\* purchasesCol.findOne for the request, then the re-validation.
\*   base: missing / no paidAt / window expired -> request failed with a reason;
\*         otherwise on to the approved write.
\*   ent:  missing -> request rejected; reject -> on to the reject write;
\*         no paidAt / window expired -> reply only; otherwise on to the processor.
RefundFindPurchase(h) ==
    /\ h \in DOMAIN refundActions
    /\ refundActions[h].pc = "find_purchase"
    /\ LET a == refundActions[h]
           purchase == findPurchase(refundRequests[a.requestId].purchaseId)
           expired == purchase.paidAt = -1 \/ windowExpired(purchase.paidAt)
       IN IF variant = "base"
          THEN IF purchase = NoPurchase
               THEN /\ refundRequests' = SetRequest(a.requestId, "failed", "Purchase not found")
                    /\ refundActions' = [refundActions EXCEPT ![h].pc = "done",
                                                             ![h].outcome = "missing"]
               ELSE IF expired
               THEN /\ refundRequests' = SetRequest(a.requestId, "failed", "Refund window expired")
                    /\ refundActions' = [refundActions EXCEPT ![h].pc = "done",
                                                             ![h].outcome = "expired"]
               ELSE /\ UNCHANGED refundRequests
                    /\ refundActions' = [refundActions EXCEPT ![h].pc = "approved",
                                                             ![h].purchase = purchase]
          ELSE IF purchase = NoPurchase
               THEN /\ refundRequests' = SetRequest(a.requestId, "rejected", "Purchase missing")
                    /\ refundActions' = [refundActions EXCEPT ![h].pc = "done",
                                                             ![h].outcome = "missing"]
               ELSE IF a.action = "refund_reject"
               THEN /\ UNCHANGED refundRequests
                    /\ refundActions' = [refundActions EXCEPT ![h].pc = "reject"]
               ELSE IF expired
               THEN /\ UNCHANGED refundRequests
                    /\ refundActions' = [refundActions EXCEPT ![h].pc = "done",
                                                             ![h].outcome = "expired"]
               ELSE /\ UNCHANGED refundRequests
                    /\ refundActions' = [refundActions EXCEPT ![h].pc = "execute",
                                                             ![h].purchase = purchase]
    /\ UNCHANGED <<variant, idleVars, now, sessions, stripeRefunds, canceledSubs, purchases,
                   entitlements, roles, checkouts, deliveries>>

\* The payment intent executeRefundInternal refunds: the purchase's own, else
\* the one of the subscription's latest invoice when the processor reports
\* one (hasPi), else none (0).
refundTarget(purchase, hasPi) ==
    IF purchase.stripePaymentIntentId # 0 THEN purchase.stripePaymentIntentId
    ELSE IF purchase.stripeSubscriptionId # 0 /\ hasPi THEN purchase.stripeSubscriptionId
    ELSE 0

\* Whether executeRefundInternal throws: no payment reference on record, or
\* the processor call fails (apiOk FALSE), or the processor refuses a second
\* refund of a payment it has already refunded.
refundThrows(purchase, hasPi, apiOk) ==
    \/ purchase.stripePaymentIntentId = 0 /\ purchase.stripeSubscriptionId = 0
    \/ ~apiOk
    \/ \E i \in DOMAIN stripeRefunds : stripeRefunds[i] = refundTarget(purchase, hasPi)
           /\ refundTarget(purchase, hasPi) # 0

\* const refundId = await executeRefundInternal(purchase), with the catch.
\* hasPi: the subscription's latest invoice carries a payment intent.
\*   base: a throw sets the request failed with the error text.
\*   ent:  a throw only logs and replies.
RefundExecute(h, hasPi, apiOk) ==
    /\ h \in DOMAIN refundActions
    /\ refundActions[h].pc = "execute"
    /\ LET a == refundActions[h]
           target == refundTarget(a.purchase, hasPi)
       IN IF refundThrows(a.purchase, hasPi, apiOk)
          THEN /\ refundRequests' = IF variant = "base"
                                    THEN SetRequest(a.requestId, "failed", "processor error")
                                    ELSE refundRequests
               /\ refundActions' = [refundActions EXCEPT ![h].pc = "done",
                                                        ![h].outcome = "threw"]
               /\ UNCHANGED <<stripeRefunds, canceledSubs>>
          ELSE /\ stripeRefunds' = IF target # 0 THEN Append(stripeRefunds, target)
                                   ELSE stripeRefunds
               /\ canceledSubs' = IF a.purchase.stripePaymentIntentId = 0
                                  THEN canceledSubs \cup {a.purchase.stripeSubscriptionId}
                                  ELSE canceledSubs
               /\ refundActions' = [refundActions EXCEPT
                      ![h].pc = IF variant = "base" THEN "role" ELSE "approved",
                      ![h].refundId = IF target # 0 THEN Len(stripeRefunds) + 1 ELSE 0]
               /\ UNCHANGED refundRequests
    /\ UNCHANGED <<variant, idleVars, now, sessions, purchases, entitlements, roles, checkouts,
                   deliveries>>

\* base: member.roles.remove(purchase.roleId) for a product purchase with a role.
RefundRemoveRole(h) ==
    /\ h \in DOMAIN refundActions
    /\ refundActions[h].pc = "role"
    /\ LET p == refundActions[h].purchase
       IN roles' = IF p.type = "product" /\ p.roleId # "none"
                   THEN roles \ {<<p.userId, p.roleId>>}
                   ELSE roles
    /\ refundActions' = [refundActions EXCEPT ![h].pc = "refunded"]
    /\ UNCHANGED <<variant, idleVars, now, sessions, stripeRefunds, canceledSubs, purchases,
                   entitlements, refundRequests, checkouts, deliveries>>

\* updateOne({requestId}, {$set: {status: "approved", ...}}).
\*   base: the first statement of the try, before the processor is called.
\*   ent:  after the processor returned, recording stripeRefundId.
RefundMarkApproved(h) ==
    /\ h \in DOMAIN refundActions
    /\ refundActions[h].pc = "approved"
    /\ LET a == refundActions[h]
       IN refundRequests' = [SetRequest(a.requestId, "approved", "none")
                               EXCEPT ![a.requestId].stripeRefundId = a.refundId]
    /\ refundActions' = [refundActions EXCEPT
           ![h].pc = IF variant = "base" THEN "execute" ELSE "refunded"]
    /\ UNCHANGED <<variant, idleVars, now, sessions, stripeRefunds, canceledSubs, purchases,
                   entitlements, roles, checkouts, deliveries>>

\* purchasesCol.updateOne({purchaseId}, {$set: {status: "refunded", stripeRefundId}}).
RefundMarkPurchase(h) ==
    /\ h \in DOMAIN refundActions
    /\ refundActions[h].pc = "refunded"
    /\ LET a == refundActions[h]
           i == FirstMatch({j \in DOMAIN purchases :
                               purchases[j].purchaseId = a.purchase.purchaseId})
       IN purchases' = IF i = 0 THEN purchases
                       ELSE [purchases EXCEPT ![i].status = "refunded",
                                              ![i].stripeRefundId = a.refundId]
    /\ refundActions' = [refundActions EXCEPT ![h].pc = "finish"]
    /\ UNCHANGED <<variant, idleVars, now, sessions, stripeRefunds, canceledSubs, entitlements,
                   refundRequests, roles, checkouts, deliveries>>

\* The last write of a successful refund.
\*   base: updateOne({requestId}, {$set: {status: "executed"}}).
\*   ent:  entitlementsCol.updateOne({guildId, userId, productId}, {$set: {status: "revoked"}})
\*         when the purchase names a product.
RefundFinish(h) ==
    /\ h \in DOMAIN refundActions
    /\ refundActions[h].pc = "finish"
    /\ LET a == refundActions[h]
           i == FirstMatch({j \in DOMAIN entitlements :
                               /\ entitlements[j].userId = a.purchase.userId
                               /\ entitlements[j].productId = a.purchase.productId})
       IN IF variant = "base"
          THEN /\ refundRequests' = SetRequest(a.requestId, "executed", "none")
               /\ UNCHANGED entitlements
          ELSE /\ entitlements' = IF a.purchase.productId # "none" /\ i # 0
                                  THEN [entitlements EXCEPT ![i].status = "revoked"]
                                  ELSE entitlements
               /\ UNCHANGED refundRequests
    /\ refundActions' = [refundActions EXCEPT ![h].pc = "done", ![h].outcome = "refunded"]
    /\ UNCHANGED <<variant, idleVars, now, sessions, stripeRefunds, canceledSubs, purchases, roles,
                   checkouts, deliveries>>

(* ------------------------------ cooldown ------------------------------ *)
ACTION_COOLDOWN_MS == 2000

\* Keys of the cooldown Map: the action and the id of the member who acts.
CooldownKeys == {"buy:u1", "upgrade:u1"}

\* new Map(): no key has a time; get(key) || 0 reads an absent key as 0.
EmptyCooldown == [key \in CooldownKeys |-> 0]

\* const last = cooldown.get(key) || 0;
cooldownGet(map, key) == map[key]

\* if (now - last < ACTION_COOLDOWN_MS) return true; ... return false;
isCoolingAt(map, key, t) == t - cooldownGet(map, key) < ACTION_COOLDOWN_MS

\* Faulty throttle: every call restarts the interval, a rejected one too.
cooldownSetAlways(map, key, t) == [map EXCEPT ![key] = t]

\* The Map after isCooling(key) at time t: cooldown.set(key, now) is reached
\* only when the call is not rejected.
cooldownSet(map, key, t) ==
    IF isCoolingAt(map, key, t) THEN map ELSE [map EXCEPT ![key] = t]

\* One call of isCooling(key) by a handler.
CallIsCooling(key) ==
    /\ Len(coolCalls) < MaxCoolCalls
    /\ coolCalls' = Append(coolCalls,
          [key |-> key, at |-> now, cooling |-> isCoolingAt(cooldown, key, now)])
    /\ cooldown' = cooldownSet(cooldown, key, now)
    /\ UNCHANGED <<variant, now, paymentVars, ticketVars, configVars, amountVars, refusals>>

\* Date.now() when the first handler runs: any time later than one cooldown
\* interval after the epoch.
BootMs == 100000

\* Time passes between two calls: a millisecond, or a millisecond less than
\* the cooldown interval.
CoolSteps == {1, ACTION_COOLDOWN_MS - 1}

\* Clock advances so far (each elapsed time is made of them in one way only).
coolTicks ==
    LET elapsed == now - BootMs
    IN (elapsed \div (ACTION_COOLDOWN_MS - 1)) + (elapsed % (ACTION_COOLDOWN_MS - 1))

CoolTick(ms) ==
    /\ coolTicks < MaxCoolTicks
    /\ Len(coolCalls) < MaxCoolCalls
    /\ now' = now + ms
    /\ UNCHANGED <<variant, paymentVars, idleVars>>

(* ------------------- state of the other subsystems at startup ---------- *)
\* the config collection holds no support role until /setup or /config sets one
NoConfig == [supportRoleId |-> "none"]
\* configCache has no entry for the guild
NoCacheEntry == [doc |-> NoConfig, exp |-> -1]

NoTickets ==
    /\ tickets = <<>>
    /\ channels = {}
    /\ ticketOps = <<>>

NoConfigOps ==
    /\ configStore = NoConfig
    /\ configCache = NoCacheEntry
    /\ configOps = <<>>

\* no press has been refused, the cooldown Map is empty
NoGuards ==
    /\ refusals = 0
    /\ cooldown = EmptyCooldown
    /\ coolCalls = <<>>

\* amountToMinorUnits has not been called
NoOutput == [done |-> FALSE, minor |-> 0, display |-> <<>>]

NoAmount ==
    /\ amountStr = <<>>
    /\ amountOut = NoOutput

(* ----------------------------- amount codec --------------------------- *)
\* Strings are sequences of characters.
DigitChars == <<"0", "1", "2", "3", "4", "5", "6", "7", "8", "9">>
isDigit(c) == \E i \in DOMAIN DigitChars : DigitChars[i] = c
digitValue(c) == (CHOOSE i \in DOMAIN DigitChars : DigitChars[i] = c) - 1

\* amountToMinorUnits answers null; every number it returns is positive
Null == 0

\* String.prototype.trim: white space is dropped at both ends
RECURSIVE trimStart(_)
trimStart(str) ==
    IF str # <<>> /\ Head(str) = " " THEN trimStart(Tail(str)) ELSE str

RECURSIVE trimEnd(_)
trimEnd(str) ==
    IF str # <<>> /\ str[Len(str)] = " "
    THEN trimEnd(SubSeq(str, 1, Len(str) - 1)) ELSE str

trim(str) == trimEnd(trimStart(str))

allDigits(str) == \A i \in DOMAIN str : isDigit(str[i])

\* position of the first ".", 0 when there is none
dotAt(str) == FirstMatch({i \in DOMAIN str : str[i] = "."})

\* split("."): the part before the first "." and the part after it
wholeOf(str) == IF dotAt(str) = 0 THEN str ELSE SubSeq(str, 1, dotAt(str) - 1)
fracRawOf(str) == IF dotAt(str) = 0 THEN <<>> ELSE SubSeq(str, dotAt(str) + 1, Len(str))

\* /^\d+(\.\d{1,2})?$/
matchesAmountUpToThree(str) ==
    /\ wholeOf(str) # <<>>
    /\ allDigits(wholeOf(str))
    /\ dotAt(str) # 0 => /\ Len(fracRawOf(str)) \in 1..3
                         /\ allDigits(fracRawOf(str))

matchesAmount(str) ==
    /\ wholeOf(str) # <<>>
    /\ allDigits(wholeOf(str))
    /\ dotAt(str) # 0 => /\ Len(fracRawOf(str)) \in 1..2
                         /\ allDigits(fracRawOf(str))

\* (fracRaw || "").padEnd(2, "0").slice(0, 2)
padFrac(fracRaw) ==
    SubSeq(fracRaw \o (IF Len(fracRaw) < 2 THEN [i \in 1..(2 - Len(fracRaw)) |-> "0"] ELSE <<>>),
           1, 2)

\* Number(digits): the value of a string of decimal digits, 0 for ""
RECURSIVE Number(_)
Number(digits) ==
    IF digits = <<>> THEN 0
    ELSE 10 * Number(SubSeq(digits, 1, Len(digits) - 1)) + digitValue(digits[Len(digits)])

RECURSIVE stripZeros(_)
stripZeros(digits) ==
    IF digits # <<>> /\ Head(digits) = "0" THEN stripZeros(Tail(digits)) ELSE digits

\* Number.MAX_VALUE is about 1.8e308: a whole part of 308 significant
\* digits or more times 100 is Infinity.  (Some whole parts of 307 digits
\* overflow too, and from 2^53 upwards doubles are no longer exact; strings
\* of 10 to 307 digits are not among the inputs.)
INFINITE_DIGITS == 308
isFinite(whole) == Len(stripZeros(whole)) < INFINITE_DIGITS

amountToMinorUnits(amountString) ==
    LET trimmed == trim(amountString)
        whole == wholeOf(trimmed)
        frac == padFrac(fracRawOf(trimmed))
    IN  IF ~matchesAmount(trimmed) THEN Null
        ELSE IF ~isFinite(whole) THEN Null
        ELSE IF Number(whole) * 100 + Number(frac) <= 0 THEN Null
        ELSE Number(whole) * 100 + Number(frac)

\* the decimal digits of a natural number
RECURSIVE toDigits(_)
toDigits(n) ==
    IF n < 10 THEN <<DigitChars[n + 1]>>
    ELSE toDigits(n \div 10) \o <<DigitChars[(n % 10) + 1]>>

\* (minor / 100).toFixed(2) behind the pound sign
minorToDisplay(minor) ==
    <<"GBP">> \o toDigits(minor \div 100) \o <<".">>
        \o <<DigitChars[((minor % 100) \div 10) + 1], DigitChars[(minor % 10) + 1]>>

\* The price given to /product is converted and shown back.
AmountConvert ==
    /\ ~amountOut.done
    /\ amountOut' =
          [done |-> TRUE,
           minor |-> amountToMinorUnits(amountStr),
           display |-> IF amountToMinorUnits(amountStr) = Null THEN <<>>
                       ELSE minorToDisplay(amountToMinorUnits(amountStr))]
    /\ UNCHANGED <<variant, now, paymentVars, guardVars, ticketVars, configVars, amountStr>>

(* ------------------------------- config ------------------------------- *)
\* configCache entries live for 30 s
CONFIG_CACHE_TTL_MS == 30000

\* The revision of src/index.js reads the config collection on every call;
\* the revision with the entitlement ledger answers from configCache while
\* the entry has not expired.
cacheHit == variant = "ent" /\ configCache.exp > now

\* getConfig run without interruption: the document it returns ...
getConfig == IF cacheHit THEN configCache.doc ELSE configStore

\* ... and the cache entry it leaves behind
getConfigCached ==
    IF variant = "ent" /\ ~cacheHit
    THEN [doc |-> configStore, exp |-> now + CONFIG_CACHE_TTL_MS]
    ELSE configCache

\* One call of getConfig or upsertConfig.  doc is what findOne returned (or
\* what the call returned, once done), exp0 the expiry computed from the
\* Date.now() taken on entry, quiet whether every earlier upsertConfig had
\* completed when the call began.
ConfigOp(op, pc, doc, patch) ==
    [op |-> op, pc |-> pc, doc |-> doc, patch |-> patch,
     exp0 |-> now + CONFIG_CACHE_TTL_MS,
     quiet |-> \A o \in DOMAIN configOps :
                  configOps[o].op = "upsert" => configOps[o].pc = "done",
     store |-> configStore]

\* roles /setup and /config can name as the support role
ConfigPatches == {"support", "helpers"}

CanConfig == Len(configOps) < MaxConfigOps

\* getConfig on entry: a live cache entry is returned at once, otherwise
\* findOne is sent
ConfigGet ==
    /\ CanConfig
    /\ configOps' = Append(configOps,
          IF cacheHit
          THEN ConfigOp("get", "done", configCache.doc, "none")
          ELSE ConfigOp("get", "read", NoConfig, "none"))
    /\ UNCHANGED <<variant, now, paymentVars, guardVars, ticketVars, amountVars, configStore, configCache>>

\* findOne is answered by the store; src/index.js returns the document
ConfigGetRead(o) ==
    /\ o \in DOMAIN configOps
    /\ configOps[o].op = "get"
    /\ configOps[o].pc = "read"
    /\ configOps' = [configOps EXCEPT ![o] =
          [@ EXCEPT !.doc = configStore,
                    !.pc = IF variant = "ent" THEN "set" ELSE "done"]]
    /\ UNCHANGED <<variant, now, paymentVars, guardVars, ticketVars, amountVars, configStore, configCache>>

\* configCache.set(guildId, {doc, exp}) and return
ConfigGetSet(o) ==
    /\ o \in DOMAIN configOps
    /\ configOps[o].op = "get"
    /\ configOps[o].pc = "set"
    /\ configCache' = [doc |-> configOps[o].doc, exp |-> configOps[o].exp0]
    /\ configOps' = [configOps EXCEPT ![o].pc = "done"]
    /\ UNCHANGED <<variant, now, paymentVars, guardVars, ticketVars, amountVars, configStore>>

\* upsertConfig: updateOne with $set of the patch
ConfigUpsert(patch) ==
    /\ CanConfig
    /\ configStore' = [configStore EXCEPT !.supportRoleId = patch]
    /\ configOps' = Append(configOps,
          ConfigOp("upsert", IF variant = "ent" THEN "invalidate" ELSE "done",
                   NoConfig, patch))
    /\ UNCHANGED <<variant, now, paymentVars, guardVars, ticketVars, amountVars, configCache>>

\* configCache.delete(guildId) once updateOne has resolved
ConfigUpsertInvalidate(o) ==
    /\ o \in DOMAIN configOps
    /\ configOps[o].op = "upsert"
    /\ configOps[o].pc = "invalidate"
    /\ configCache' = NoCacheEntry
    /\ configOps' = [configOps EXCEPT ![o].pc = "done"]
    /\ UNCHANGED <<variant, now, paymentVars, guardVars, ticketVars, amountVars, configStore>>

(* ------------------------------- tickets ------------------------------ *)
\* The support role that /setup can configure, and the member who holds it.
SupportRole == "support"
SupportStaff == {"staff1"}
\* Members who can press a button in a ticket channel: the buyer, a second
\* member, an administrator and a support agent.
TicketActors == {"u1", "u2", "admin1", "staff1"}

\* src/index.js has one kind of ticket; the entitlement revision has two.
TicketKinds == IF variant = "base" THEN {"ticket"} ELSE {"purchase", "support"}

Ticket(channelId, userId, kind) ==
    [channelId |-> channelId, userId |-> userId, kind |-> kind, status |-> "open",
     closedBy |-> "none", closedAt |-> -1]

TicketOp(op, actor, kind, channel, ticket, pc, result) ==
    [op |-> op, actor |-> actor, kind |-> kind, channel |-> channel, ticket |-> ticket,
     pc |-> pc, result |-> result, at |-> now]

CanOperate == Len(ticketOps) < MaxTicketOps

\* findOne({guildId, userId, status: "open", kind}): 0 when there is none
findOpenTicketAnyStatus(col, userId, kind) ==
    FirstMatch({i \in DOMAIN col : col[i].userId = userId /\ col[i].kind = kind})

findOpenTicket(col, userId, kind) ==
    FirstMatch({i \in DOMAIN col :
                   /\ col[i].userId = userId
                   /\ col[i].kind = kind
                   /\ col[i].status = "open"})

\* findOne({guildId, channelId, status: "open"})
findTicketByChannel(col, channelId) ==
    FirstMatch({i \in DOMAIN col : col[i].channelId = channelId /\ col[i].status = "open"})

\* guild.channels.create hands out a fresh id
newChannelId ==
    1 + Cardinality({o \in DOMAIN ticketOps :
                        ticketOps[o].op = "open" /\ ticketOps[o].result = "created"})

\* isCooling("supportopen:" + user): the support button answers "Slow down."
\* within 2 s of the press it last accepted; the purchase select has no
\* cooldown.
isCooling(userId, kind) ==
    /\ variant = "ent"
    /\ kind = "support"
    /\ \E o \in DOMAIN ticketOps :
          /\ ticketOps[o].op = "open"
          /\ ticketOps[o].actor = userId
          /\ ticketOps[o].kind = kind
          /\ now - ticketOps[o].at < ACTION_COOLDOWN_MS

\* The open handler up to its first await on the tickets collection and the
\* lookup itself.
TicketOpen(userId, kind) ==
    /\ CanOperate
    /\ kind \in TicketKinds
    /\ ~isCooling(userId, kind)
    /\ LET existing == findOpenTicket(tickets, userId, kind) IN
          ticketOps' = Append(ticketOps,
              TicketOp("open", userId, kind, 0, existing,
                       IF existing # 0 THEN "fetch" ELSE "create", "none"))
    /\ UNCHANGED <<variant, now, paymentVars, guardVars, configVars, amountVars, tickets, channels>>

\* guild.channels.fetch(existing.channelId): a channel that still exists is
\* returned as it is.
TicketFetch(o) ==
    /\ o \in DOMAIN ticketOps
    /\ ticketOps[o].op = "open"
    /\ ticketOps[o].pc = "fetch"
    /\ LET existing == tickets[ticketOps[o].ticket] IN
          ticketOps' = [ticketOps EXCEPT ![o] =
              IF existing.channelId \in channels
              THEN [@ EXCEPT !.pc = "done", !.result = "reused",
                             !.channel = existing.channelId]
              ELSE [@ EXCEPT !.pc = "stale"]]
    /\ UNCHANGED <<variant, now, paymentVars, guardVars, configVars, amountVars, tickets, channels>>

\* The record whose channel is gone is marked stale: by _id in the
\* entitlement revision, by {guildId, userId, status: "open"} in src/index.js.
staleTarget(o) ==
    IF variant = "ent"
    THEN ticketOps[o].ticket
    ELSE FirstMatch({i \in DOMAIN tickets :
                        /\ tickets[i].userId = ticketOps[o].actor
                        /\ tickets[i].status = "open"})

TicketStale(o) ==
    /\ o \in DOMAIN ticketOps
    /\ ticketOps[o].op = "open"
    /\ ticketOps[o].pc = "stale"
    /\ tickets' = IF staleTarget(o) = 0 THEN tickets
                  ELSE [tickets EXCEPT ![staleTarget(o)].status = "stale"]
    /\ ticketOps' = [ticketOps EXCEPT ![o].pc = "create"]
    /\ UNCHANGED <<variant, now, paymentVars, guardVars, configVars, amountVars, channels>>

\* getConfig, ensureCategory and guild.channels.create
TicketCreate(o) ==
    /\ o \in DOMAIN ticketOps
    /\ ticketOps[o].op = "open"
    /\ ticketOps[o].pc = "create"
    /\ channels' = channels \cup {newChannelId}
    /\ configCache' = getConfigCached
    /\ ticketOps' = [ticketOps EXCEPT ![o] =
                        [@ EXCEPT !.pc = "insert", !.result = "created",
                                  !.channel = newChannelId]]
    /\ UNCHANGED <<variant, now, paymentVars, guardVars, amountVars, tickets, configStore, configOps>>

\* ticketsCol.insertOne
TicketInsert(o) ==
    /\ o \in DOMAIN ticketOps
    /\ ticketOps[o].op = "open"
    /\ ticketOps[o].pc = "insert"
    /\ tickets' = Append(tickets,
                         Ticket(ticketOps[o].channel, ticketOps[o].actor, ticketOps[o].kind))
    /\ ticketOps' = [ticketOps EXCEPT ![o].pc = "done"]
    /\ UNCHANGED <<variant, now, paymentVars, guardVars, configVars, amountVars, channels>>

\* Somebody with Manage Channels deletes a ticket channel by hand.
ChannelDeleted(channelId) ==
    /\ channelId \in channels
    /\ channels' = channels \ {channelId}
    /\ UNCHANGED <<variant, now, paymentVars, guardVars, configVars, amountVars, tickets, ticketOps>>

\* Who may close: the owner, an administrator and, in the entitlement
\* revision, a holder of the configured support role.
canManageTicket(actor, ticket) ==
    \/ actor = ticket.userId
    \/ isAdmin(actor)
    \/ /\ variant = "ent"
       /\ getConfig.supportRoleId # "none"
       /\ <<actor, getConfig.supportRoleId>> \in roles

\* canManageTicket asks for the config only when the actor is neither the
\* owner nor an administrator
readsConfig(actor, ticket) ==
    variant = "ent" /\ actor # ticket.userId /\ ~isAdmin(actor)

\* The close button pressed in a channel: lookup of the open ticket of the
\* channel and the permission check.
TicketClose(actor, channelId) ==
    /\ CanOperate
    /\ channelId \in channels
    /\ LET t == findTicketByChannel(tickets, channelId) IN
          IF t = 0
          THEN /\ ticketOps' = Append(ticketOps,
                      TicketOp("close", actor, "none", channelId, 0, "done", "invalid"))
               /\ UNCHANGED configCache
          ELSE /\ ticketOps' = Append(ticketOps,
                      IF canManageTicket(actor, tickets[t])
                      THEN TicketOp("close", actor, tickets[t].kind, channelId, t,
                                    "fetch", "none")
                      ELSE TicketOp("close", actor, tickets[t].kind, channelId, t,
                                    "done", "denied"))
               /\ configCache' = IF readsConfig(actor, tickets[t])
                                 THEN getConfigCached ELSE configCache
    /\ UNCHANGED <<variant, now, paymentVars, guardVars, amountVars, tickets, channels,
                   configStore, configOps>>

\* guild.channels.fetch(ticket.channelId): nothing happens when it is gone.
\* src/index.js deletes the channel before it updates the record, the
\* entitlement revision updates the record first.
TicketCloseFetch(o) ==
    /\ o \in DOMAIN ticketOps
    /\ ticketOps[o].op = "close"
    /\ ticketOps[o].pc = "fetch"
    /\ ticketOps' = [ticketOps EXCEPT ![o] =
          IF ticketOps[o].channel \notin channels
          THEN [@ EXCEPT !.pc = "done", !.result = "gone"]
          ELSE [@ EXCEPT !.pc = IF variant = "base" THEN "delete" ELSE "update"]]
    /\ UNCHANGED <<variant, now, paymentVars, guardVars, configVars, amountVars, tickets, channels>>

\* the filter of the closing updateOne
closeMatchesAnyStatus(ticket, o) ==
    ticket.channelId = ticketOps[o].channel

closeMatches(ticket, o) ==
    /\ ticket.channelId = ticketOps[o].channel
    /\ ticket.status = "open"
    /\ variant = "base" => ticket.userId = tickets[ticketOps[o].ticket].userId

closeTarget(o) == FirstMatch({i \in DOMAIN tickets : closeMatches(tickets[i], o)})

TicketCloseUpdate(o) ==
    /\ o \in DOMAIN ticketOps
    /\ ticketOps[o].op = "close"
    /\ ticketOps[o].pc = "update"
    /\ tickets' = IF closeTarget(o) = 0 THEN tickets
                  ELSE [tickets EXCEPT ![closeTarget(o)] =
                           [@ EXCEPT !.status = "closed", !.closedAt = now,
                                     !.closedBy = ticketOps[o].actor]]
    /\ ticketOps' = [ticketOps EXCEPT ![o] =
          IF variant = "base"
          THEN [@ EXCEPT !.pc = "done", !.result = "closed"]
          ELSE [@ EXCEPT !.pc = "delete"]]
    /\ UNCHANGED <<variant, now, paymentVars, guardVars, configVars, amountVars, channels>>

\* ch.delete(), in the entitlement revision from a timer 1.5 s later
TicketCloseDelete(o) ==
    /\ o \in DOMAIN ticketOps
    /\ ticketOps[o].op = "close"
    /\ ticketOps[o].pc = "delete"
    /\ channels' = channels \ {ticketOps[o].channel}
    /\ ticketOps' = [ticketOps EXCEPT ![o] =
          IF variant = "base"
          THEN [@ EXCEPT !.pc = "update"]
          ELSE [@ EXCEPT !.pc = "done", !.result = "closed"]]
    /\ UNCHANGED <<variant, now, paymentVars, guardVars, configVars, amountVars, tickets>>

(* -------------------------------- clock ------------------------------- *)
\* No handler is between two of its awaits.
Quiescent ==
    /\ \A c \in DOMAIN checkouts : checkouts[c].pc \in {"done", "failed"}
    /\ \A d \in DOMAIN deliveries : deliveries[d].pc = "done"
    /\ \A h \in DOMAIN refundActions : refundActions[h].pc = "done"
    /\ \A o \in DOMAIN ticketOps : ticketOps[o].pc = "done"
    /\ \A o \in DOMAIN configOps : configOps[o].pc = "done"

\* A refund window passes.  Handlers run for seconds, so the clock is
\* advanced only between handler runs.
Tick ==
    /\ now < MaxTicks * TickMs
    /\ Quiescent
    /\ now' = now + TickMs
    /\ UNCHANGED <<variant, idleVars, sessions, stripeRefunds, canceledSubs, purchases, entitlements,
                   refundRequests, roles, checkouts, deliveries, refundActions>>

(* ---------------------------- specification --------------------------- *)
Init ==
    /\ variant \in {"base", "ent"}
    /\ now = 0
    /\ sessions = <<>>
    /\ stripeRefunds = <<>>
    /\ canceledSubs = {}
    /\ purchases = <<>>
    /\ entitlements = <<>>
    /\ refundRequests = <<>>
    /\ roles = {}
    /\ checkouts = <<>>
    /\ deliveries = <<>>
    /\ refundActions = <<>>
    /\ NoGuards /\ NoTickets /\ NoConfigOps /\ NoAmount

Next ==
    \/ \E u \in Buyers, k \in DOMAIN ProductPrices, up \in BOOLEAN : StartCheckout(u, k, up)
    \/ \E c \in 1..MaxCheckouts : InsertPurchase(c)
    \/ \E s \in 1..MaxCheckouts, fault \in ReceiveFaults : WebhookDeliver(s, fault)
    \/ \E s \in 1..MaxCheckouts, p \in 1..MaxCheckouts : WebhookForged(s, p)
    \/ \E missing \in ForeignMetadata : WebhookForeign(missing)
    \/ WebhookUnknown
    \/ \E s \in 1..MaxCheckouts, snapshot \in SubscriptionSnapshots, fault \in ReceiveFaults :
          WebhookSubscriptionUpdated(s, snapshot, fault)
    \/ \E s \in 1..MaxCheckouts, fault \in ReceiveFaults : WebhookSubscriptionDeleted(s, fault)
    \/ \E d \in 1..MaxDeliveries, fault \in ReceiveFaults : WebhookFallback(d, fault)
    \/ \E d \in 1..MaxDeliveries, fault \in Faults : WebhookGrantRole(d, fault)
    \/ \E d \in 1..MaxDeliveries, fault \in Faults : WebhookEntitlement(d, fault)
    \/ \E d \in 1..MaxDeliveries, fault \in Faults : WebhookSubscriptionRemoveRole(d, fault)
    \/ \E d \in 1..MaxDeliveries, fault \in ReceiveFaults : WebhookSubscriptionMark(d, fault)
    \/ \E a \in Actors, p \in 1..MaxCheckouts : RefundCommand(a, p)
    \/ \E a \in Actors, act \in {"refund_approve", "refund_reject"},
          r \in 1..MaxRefundRequests : RefundButton(a, act, r)
    \/ \E h \in 1..MaxRefundActions : RefundReject(h)
    \/ \E h \in 1..MaxRefundActions : RefundFindPurchase(h)
    \/ \E h \in 1..MaxRefundActions, hasPi \in BOOLEAN, apiOk \in BOOLEAN :
          RefundExecute(h, hasPi, apiOk)
    \/ \E h \in 1..MaxRefundActions : RefundRemoveRole(h)
    \/ \E h \in 1..MaxRefundActions : RefundMarkApproved(h)
    \/ \E h \in 1..MaxRefundActions : RefundMarkPurchase(h)
    \/ \E h \in 1..MaxRefundActions : RefundFinish(h)
    \/ Tick

Spec == Init /\ [][Next]_vars

\* The ownership gate on its own: the entitlement revision starts with any
\* entitlement state of the buyer for the product (none, or one row of any
\* status and plan, with or without a subscription reference), and checkouts
\* are attempted against it.
EntitlementStates ==
    {<<>>} \cup
    {<<[userId |-> u, productId |-> ProductId, status |-> st, planKey |-> pk,
        referenceCode |-> "none", lastPurchaseId |-> 0, stripeSubscriptionId |-> sub]>> :
        u \in Buyers, st \in {"active", "revoked"}, pk \in DOMAIN ProductPrices, sub \in {0, 1}}

InitGate ==
    /\ variant = "ent"
    /\ now = 0
    /\ sessions = <<>>
    /\ stripeRefunds = <<>>
    /\ canceledSubs = {}
    /\ purchases = <<>>
    /\ entitlements \in EntitlementStates
    /\ refundRequests = <<>>
    /\ roles = {}
    /\ checkouts = <<>>
    /\ deliveries = <<>>
    /\ refundActions = <<>>
    /\ NoGuards /\ NoTickets /\ NoConfigOps /\ NoAmount

NextGate ==
    \/ \E userId \in Buyers, planKey \in DOMAIN ProductPrices, isUpgrade \in BOOLEAN :
          StartCheckout(userId, planKey, isUpgrade)
    \/ \E c \in 1..MaxCheckouts : InsertPurchase(c)

SpecGate == InitGate /\ [][NextGate]_vars

\* The entitlement upsert on its own: the entitlement revision after one or
\* two checkouts of the buyer were started, for any enabled plans and with or
\* without a reference code on the ticket, their insertOne still pending;
\* the paid events are delivered in any number and interleaving.
VALID_REFERENCE_CODES == {"synex"}

StartedCheckouts ==
    UNION {[1..n -> {k \in DOMAIN ProductPrices : planEnabled(k)}
                        \X (VALID_REFERENCE_CODES \cup {"none"})] : n \in 1..MaxCheckouts}

InitUpsert ==
    /\ variant = "ent"
    /\ now = 0
    /\ \E started \in StartedCheckouts, u \in Buyers :
          /\ sessions = [k \in DOMAIN started |->
                            [NewSession(u, started[k][1], k)
                                EXCEPT !.reference_code = started[k][2]]]
          /\ checkouts = [k \in DOMAIN started |->
                             [userId |-> u, planKey |-> started[k][1], isUpgrade |-> FALSE,
                              purchaseId |-> k, sessionId |-> k, pc |-> "insert",
                              url |-> FALSE]]
    /\ stripeRefunds = <<>>
    /\ canceledSubs = {}
    /\ purchases = <<>>
    /\ entitlements = <<>>
    /\ refundRequests = <<>>
    /\ roles = {}
    /\ deliveries = <<>>
    /\ refundActions = <<>>
    /\ NoGuards /\ NoTickets /\ NoConfigOps /\ NoAmount

NextUpsert ==
    \/ \E c \in 1..MaxCheckouts : InsertPurchase(c)
    \/ \E s \in 1..MaxCheckouts, fault \in ReceiveFaults : WebhookDeliver(s, fault)
    \/ \E d \in 1..MaxDeliveries, fault \in Faults : WebhookGrantRole(d, fault)
    \/ \E d \in 1..MaxDeliveries, fault \in Faults : WebhookEntitlement(d, fault)

SpecUpsert == InitUpsert /\ [][NextUpsert]_vars

(* ------------------------- refund specification ----------------------- *)
\* The refund workflow on its own.  The buyer has paid one checkout of any
\* enabled plan, or a one-time checkout and then the monthly upgrade; the
\* handlers that served them have returned.  Refunds are then requested
\* and decided in any number and interleaving.
BoughtPlans ==
    {<<k>> : k \in {p \in DOMAIN ProductPrices : planEnabled(p)}}
       \cup {<<"one_time", "monthly">>}

\* The checkout that bought the s-th plan.
BoughtCheckout(plans, s) ==
    [userId |-> "u1", planKey |-> plans[s], isUpgrade |-> s > 1,
     purchaseId |-> s, sessionId |-> s, pc |-> "done", url |-> TRUE]

InitRefunds ==
    /\ variant \in {"base", "ent"}
    /\ now = 0
    /\ stripeRefunds = <<>>
    /\ canceledSubs = {}
    /\ \E plans \in BoughtPlans :
          /\ sessions = [s \in DOMAIN plans |-> NewSession("u1", plans[s], s)]
          /\ purchases = [s \in DOMAIN plans |->
                             SetPaid(CreatedRow(BoughtCheckout(plans, s)), CompletedEvent(s))]
          /\ entitlements = IF variant = "ent"
                            THEN <<PaidEntitlement(CompletedEvent(Len(plans)))>>
                            ELSE <<>>
    /\ refundRequests = <<>>
    /\ roles = {<<"u1", ProductRole>>}
    /\ checkouts = <<>>
    /\ deliveries = <<>>
    /\ refundActions = <<>>
    /\ NoGuards /\ NoTickets /\ NoConfigOps /\ NoAmount

NextRefunds ==
    \/ \E a \in Actors, p \in 1..MaxCheckouts : RefundCommand(a, p)
    \/ \E a \in Actors, act \in {"refund_approve", "refund_reject"},
          r \in 1..MaxRefundRequests : RefundButton(a, act, r)
    \/ \E h \in 1..MaxRefundActions : RefundReject(h)
    \/ \E h \in 1..MaxRefundActions : RefundFindPurchase(h)
    \/ \E h \in 1..MaxRefundActions, hasPi \in BOOLEAN, apiOk \in BOOLEAN :
          RefundExecute(h, hasPi, apiOk)
    \/ \E h \in 1..MaxRefundActions : RefundRemoveRole(h)
    \/ \E h \in 1..MaxRefundActions : RefundMarkApproved(h)
    \/ \E h \in 1..MaxRefundActions : RefundMarkPurchase(h)
    \/ \E h \in 1..MaxRefundActions : RefundFinish(h)
    \/ Tick

SpecRefunds == InitRefunds /\ [][NextRefunds]_vars

(* ------------------------ cooldown specification ---------------------- *)
\* The throttle on its own: handlers of the entitlement revision call
\* isCooling with either key while the clock advances.
InitCooldown ==
    /\ variant = "ent"
    /\ now = BootMs
    /\ sessions = <<>>
    /\ stripeRefunds = <<>>
    /\ canceledSubs = {}
    /\ purchases = <<>>
    /\ entitlements = <<>>
    /\ refundRequests = <<>>
    /\ roles = {}
    /\ checkouts = <<>>
    /\ deliveries = <<>>
    /\ refundActions = <<>>
    /\ NoGuards /\ NoTickets /\ NoConfigOps /\ NoAmount

NextCooldown ==
    \/ \E key \in CooldownKeys : CallIsCooling(key)
    \/ \E ms \in CoolSteps : CoolTick(ms)

SpecCooldown == InitCooldown /\ [][NextCooldown]_vars

(* ------------------------- ticket specification ------------------------ *)
\* The ticket handlers on their own: the support agent holds the support
\* role, which the guild's config may or may not name.
InitTickets ==
    /\ variant \in {"base", "ent"}
    /\ now = 0
    /\ sessions = <<>>
    /\ stripeRefunds = <<>>
    /\ canceledSubs = {}
    /\ purchases = <<>>
    /\ entitlements = <<>>
    /\ refundRequests = <<>>
    /\ roles = {<<staff, SupportRole>> : staff \in SupportStaff}
    /\ checkouts = <<>>
    /\ deliveries = <<>>
    /\ refundActions = <<>>
    /\ NoGuards /\ NoTickets
    /\ configStore \in {NoConfig, [supportRoleId |-> SupportRole]}
    /\ configCache = NoCacheEntry
    /\ configOps = <<>>
    /\ NoAmount

TicketSteps ==
    \/ \E o \in 1..MaxTicketOps : TicketFetch(o)
    \/ \E o \in 1..MaxTicketOps : TicketStale(o)
    \/ \E o \in 1..MaxTicketOps : TicketCreate(o)
    \/ \E o \in 1..MaxTicketOps : TicketInsert(o)
    \/ \E o \in 1..MaxTicketOps : TicketCloseFetch(o)
    \/ \E o \in 1..MaxTicketOps : TicketCloseUpdate(o)
    \/ \E o \in 1..MaxTicketOps : TicketCloseDelete(o)
    \/ \E channelId \in channels : ChannelDeleted(channelId)
    \/ Tick

NextTickets ==
    \/ \E userId \in Buyers, kind \in {"ticket", "purchase", "support"} :
          TicketOpen(userId, kind)
    \/ \E actor \in TicketActors, channelId \in channels : TicketClose(actor, channelId)
    \/ TicketSteps

SpecTickets == InitTickets /\ [][NextTickets]_vars

\* The same handlers run one after the other: a button is pressed only when
\* no ticket handler is between two awaits.
NextTicketsSeq ==
    \/ /\ Quiescent
       /\ \E userId \in Buyers, kind \in {"ticket", "purchase", "support"} :
             TicketOpen(userId, kind)
    \/ /\ Quiescent
       /\ \E actor \in TicketActors, channelId \in channels : TicketClose(actor, channelId)
    \/ TicketSteps

SpecTicketsSeq == InitTickets /\ [][NextTicketsSeq]_vars

(* ------------------------- config specification ------------------------ *)
InitConfig ==
    /\ variant \in {"base", "ent"}
    /\ now = 0
    /\ sessions = <<>>
    /\ stripeRefunds = <<>>
    /\ canceledSubs = {}
    /\ purchases = <<>>
    /\ entitlements = <<>>
    /\ refundRequests = <<>>
    /\ roles = {}
    /\ checkouts = <<>>
    /\ deliveries = <<>>
    /\ refundActions = <<>>
    /\ NoGuards /\ NoTickets /\ NoConfigOps /\ NoAmount

NextConfig ==
    \/ ConfigGet
    \/ \E o \in 1..MaxConfigOps : ConfigGetRead(o)
    \/ \E o \in 1..MaxConfigOps : ConfigGetSet(o)
    \/ \E patch \in ConfigPatches : ConfigUpsert(patch)
    \/ \E o \in 1..MaxConfigOps : ConfigUpsertInvalidate(o)
    \/ Tick

SpecConfig == InitConfig /\ [][NextConfig]_vars

(* ------------------------- amount specification ------------------------ *)
\* characters the strings are made of: digits, the point, a sign, a letter
\* and a blank
AmountChars == {"0", "1", "9", ".", "-", "a", " "}

\* every string of up to MaxAmountLen characters
AmountStrings == UNION {[1..n -> AmountChars] : n \in 0..MaxAmountLen}

\* a decimal too long for a finite double
LongAmount == [i \in 1..INFINITE_DIGITS |-> "1"]

InitAmount ==
    /\ variant \in {"base", "ent"}
    /\ now = 0
    /\ sessions = <<>>
    /\ stripeRefunds = <<>>
    /\ canceledSubs = {}
    /\ purchases = <<>>
    /\ entitlements = <<>>
    /\ refundRequests = <<>>
    /\ roles = {}
    /\ checkouts = <<>>
    /\ deliveries = <<>>
    /\ refundActions = <<>>
    /\ NoGuards /\ NoTickets /\ NoConfigOps
    /\ amountStr \in AmountStrings \cup {LongAmount}
    /\ amountOut = NoOutput

NextAmount == AmountConvert

SpecAmount == InitAmount /\ [][NextAmount]_vars

(* ------------------------------ properties ---------------------------- *)
\* Purchase rows with a given purchaseId / stripeSessionId.
RowsByPurchaseId(p) == {i \in DOMAIN purchases : purchases[i].purchaseId = p}
RowsBySessionId(sid) == {i \in DOMAIN purchases : purchases[i].stripeSessionId = sid}

\* Entitlement rows of a user for a product.
EntitlementRows(u, prod) ==
    {i \in DOMAIN entitlements : entitlements[i].userId = u /\ entitlements[i].productId = prod}

\* Some refund handler has written "refunded" on purchase p.
RefundWritten(p) ==
    \E h \in DOMAIN refundActions :
        /\ refundActions[h].purchase.purchaseId = p
        /\ refundActions[h].pc = "finish" \/ refundActions[h].outcome = "refunded"

\* Webhook invocations that have answered the signed checkout.session.completed
\* event of a session, no external call having failed.
AnsweredDeliveries ==
    {d \in DOMAIN deliveries :
        /\ deliveries[d].pc = "done"
        /\ deliveries[d].faults = {}
        /\ deliveries[d].ev.id \in DOMAIN sessions
        /\ deliveries[d].ev = CompletedEvent(deliveries[d].ev.id)}

\* No signed event of another purchase has been received.
OnlyEventReceived(ev) ==
    \A e \in DOMAIN deliveries :
        (deliveries[e].ev.verified /\ deliveries[e].ev.purchase_id # 0)
            => deliveries[e].ev = ev

\* C1: once a delivery of a signed checkout.session.completed event has been
\* answered without a failed external call, whether it is the first or a duplicate and however it interleaved
\* with the checkout initiator, the answer is 200 {received: true}, there is
\* exactly one Purchase row for the event's purchase ID and it is the one row
\* for the session ID, that row is paid (unless a refund has since been
\* written on it), and in the entitlement revision there is exactly one
\* Entitlement row for the buyer and product, which -- when no other session
\* was delivered and nothing was refunded -- is the row one delivery writes.
C1_DuplicateDeliveryOneRow ==
    \A d \in AnsweredDeliveries :
        LET ev == deliveries[d].ev
        IN /\ deliveries[d].resp = 200
           /\ Cardinality(RowsByPurchaseId(ev.purchase_id)) = 1
           /\ RowsBySessionId(ev.id) = RowsByPurchaseId(ev.purchase_id)
           /\ \A i \in RowsByPurchaseId(ev.purchase_id) :
                  purchases[i].status = "paid" \/ RefundWritten(ev.purchase_id)
           /\ variant = "ent" =>
                 /\ Cardinality(EntitlementRows(ev.user_id, ev.product_id)) = 1
                 /\ ( /\ OnlyEventReceived(ev)
                      /\ \A h \in DOMAIN refundActions : refundActions[h].outcome # "refunded" )
                    => \A i \in EntitlementRows(ev.user_id, ev.product_id) :
                           entitlements[i] =
                               [userId |-> ev.user_id, productId |-> ev.product_id,
                                status |-> "active", planKey |-> ev.plan_key,
                                referenceCode |-> ev.reference_code,
                                lastPurchaseId |-> ev.purchase_id,
                                stripeSubscriptionId |-> ev.subscription]

\* The same signed event has been delivered twice, both deliveries answered,
\* and the initiator of that session has stored its row.
C1_Witness ==
    /\ Len(deliveries) = 2
    /\ AnsweredDeliveries = {1, 2}
    /\ deliveries[1].ev = deliveries[2].ev
    /\ \E c \in DOMAIN checkouts :
           checkouts[c].sessionId = deliveries[1].ev.id /\ checkouts[c].pc = "done"

\* C2: in every step each Purchase row keeps or advances its status along
\* created -> paid -> refunded: a refunded row stays refunded and a paid row
\* is paid or refunded afterwards.
C2_StatusOnlyForward ==
    [][\A i \in DOMAIN purchases :
          /\ purchases[i].status = "refunded" => purchases'[i].status = "refunded"
          /\ purchases[i].status = "paid" => purchases'[i].status \in {"paid", "refunded"}]_vars

\* The payment fields of a Purchase row.
PaymentFields(row) ==
    <<row.status, row.paidAt, row.stripePaymentIntentId, row.stripeSubscriptionId>>

\* C3: whenever a step leaves a Purchase row paid that it created or whose
\* payment fields (status, paidAt, payment and subscription reference) it
\* changed, the step is a step of a webhook invocation whose event passed the signature
\* check, is a checkout.session.completed event, and carries the row's
\* purchaseId as metadata purchase_id (and the row's session ID).
C3_PaidOnlyByMatchingVerifiedEvent ==
    [][\A i \in DOMAIN purchases' :
          ( /\ purchases'[i].status = "paid"
            /\ (i \notin DOMAIN purchases
                   \/ PaymentFields(purchases[i]) # PaymentFields(purchases'[i])) )
          => \E d \in DOMAIN deliveries' :
                /\ d \notin DOMAIN deliveries \/ deliveries[d] # deliveries'[d]
                /\ deliveries'[d].ev.verified
                /\ deliveries'[d].ev.type = "checkout.session.completed"
                /\ deliveries'[d].ev.purchase_id = purchases'[i].purchaseId
                /\ deliveries'[d].ev.id = purchases'[i].stripeSessionId]_vars

\* An unsigned body was refused with 400, and a signed event that found no
\* row took the fallback and left a reconstructed paid row.
C3_Witness ==
    /\ \E d \in DOMAIN deliveries : deliveries[d].resp = 400
    /\ \E i \in DOMAIN purchases :
           /\ purchases[i].status = "paid"
           /\ purchases[i].roleId = "none"
           /\ variant = "base"

\* C4: every refunded Purchase row records a non-null refund identifier, and
\* that identifier is a refund the processor created.
C4_RefundedOnlyIfProcessorRefunded ==
    \A i \in DOMAIN purchases :
        purchases[i].status = "refunded" =>
            /\ purchases[i].stripeRefundId # 0
            /\ purchases[i].stripeRefundId \in DOMAIN stripeRefunds

\* C5: the step in which executeRefundInternal throws leaves the request
\* failed with a failure reason recorded, and leaves purchases, roles and
\* entitlements as they were.
C5_ProcessorFailureFailsRequest ==
    [][\A h \in DOMAIN refundActions :
          (refundActions[h].pc = "execute" /\ refundActions'[h].outcome = "threw")
          => /\ refundRequests'[refundActions[h].requestId].status = "failed"
             /\ refundRequests'[refundActions[h].requestId].failureReason # "none"
             /\ UNCHANGED <<purchases, roles, entitlements>>]_vars

\* C6: the step in which an approval finds the purchase missing, without
\* paidAt, or past the refund window leaves the request failed with a reason,
\* calls no processor refund or cancel, and leaves purchases as they were.
C6_LateApprovalFailsRequest ==
    [][\A h \in DOMAIN refundActions :
          ( /\ refundActions[h].pc = "find_purchase"
            /\ refundActions[h].action = "refund_approve"
            /\ refundActions'[h].outcome \in {"expired", "missing"} )
          => /\ refundRequests'[refundActions[h].requestId].status = "failed"
             /\ refundRequests'[refundActions[h].requestId].failureReason # "none"
             /\ UNCHANGED <<purchases, stripeRefunds, canceledSubs>>]_vars

\* C7: a decided request is never pending again and never crosses to the
\* other decision: rejected stays rejected, and approved / executed / failed
\* never become rejected.
C7_RequestDecidedOnce ==
    [][\A r \in DOMAIN refundRequests :
          /\ refundRequests[r].status # "pending" => refundRequests'[r].status # "pending"
          /\ refundRequests[r].status = "rejected" => refundRequests'[r].status = "rejected"
          /\ refundRequests[r].status \in {"approved", "executed", "failed"}
                => refundRequests'[r].status # "rejected"]_vars

\* C8: a step that inserts a RefundRequest inserts it pending, on behalf of
\* an administrator, for a Purchase of the guild that is paid, has paidAt
\* recorded and was paid at most 24 hours before now; the step changes no
\* Purchase.  No other step of /refund changes anything.
C8_RefundRequestOnlyWhenEligible ==
    [][Len(refundRequests') > Len(refundRequests) =>
          LET r == refundRequests'[Len(refundRequests')]
              rows == {i \in DOMAIN purchases :
                          /\ purchases[i].purchaseId = r.purchaseId
                          /\ purchases[i].guildId = "guild"}
          IN /\ r.status = "pending"
             /\ r.requestedBy \in Admins
             /\ rows # {}
             /\ \A i \in rows :
                    /\ purchases[i].status = "paid"
                    /\ purchases[i].paidAt >= 0
                    /\ now - purchases[i].paidAt <= 24 * 60 * 60 * 1000
             /\ purchases' = purchases]_vars

\* A request is pending that was filed exactly 24 hours after payment.
C8_Witness ==
    \E r \in DOMAIN refundRequests, i \in DOMAIN purchases :
        /\ refundRequests[r].status = "pending"
        /\ purchases[i].purchaseId = refundRequests[r].purchaseId
        /\ now - purchases[i].paidAt = 24 * 60 * 60 * 1000
        /\ refundActions = <<>>

\* C9: every step of a reject press leaves purchases, roles, entitlements,
\* processor refunds and cancelled subscriptions as they were, and the step
\* that ends the press leaves the request rejected.
C9_RejectNoFinancialAction ==
    [][\A h \in DOMAIN refundActions' :
          ( /\ refundActions'[h].action = "refund_reject"
            /\ (h \notin DOMAIN refundActions \/ refundActions[h] # refundActions'[h]) )
          => /\ UNCHANGED <<purchases, roles, entitlements, stripeRefunds, canceledSubs>>
             /\ refundActions'[h].pc = "done"
                   => refundRequests'[refundActions'[h].requestId].status = "rejected"]_vars

\* A reject press has ended on a paid purchase whose buyer holds the role.
C9_Witness ==
    \E h \in DOMAIN refundActions :
        /\ refundActions[h].action = "refund_reject"
        /\ refundActions[h].outcome = "rejected"
        /\ refundRequests[refundActions[h].requestId].status = "rejected"
        /\ \E i \in DOMAIN purchases :
               /\ purchases[i].purchaseId = refundRequests[refundActions[h].requestId].purchaseId
               /\ purchases[i].status = "paid"
               /\ <<purchases[i].userId, ProductRole>> \in roles

\* C10: when a refund handler ends after the processor confirmed the refund,
\* the Purchase is refunded, the request is executed or approved, the buyer
\* no longer holds the product role, and in the entitlement revision the
\* buyer's entitlement for the product is revoked.
C10_RefundSuccessAllEffects ==
    [][\A h \in DOMAIN refundActions :
          (refundActions[h].pc = "finish" /\ refundActions'[h].outcome = "refunded")
          => LET a == refundActions[h]
             IN /\ \A i \in DOMAIN purchases' :
                       purchases'[i].purchaseId = a.purchase.purchaseId
                           => purchases'[i].status = "refunded"
                /\ refundRequests'[a.requestId].status \in {"executed", "approved"}
                /\ <<a.purchase.userId, ProductRole>> \notin roles'
                /\ variant = "ent" =>
                      \A i \in DOMAIN entitlements' :
                          ( /\ entitlements'[i].userId = a.purchase.userId
                            /\ entitlements'[i].productId = a.purchase.productId )
                          => entitlements'[i].status = "revoked"]_vars

\* C11: a webhook invocation whose body fails the signature check is answered
\* 400 in the step that receives it, and that step leaves purchases,
\* entitlements and roles as they were; the invocation takes no further step.
C11_BadSignatureRefused ==
    [][\A d \in DOMAIN deliveries' :
          ( /\ ~deliveries'[d].ev.verified
            /\ (d \notin DOMAIN deliveries \/ deliveries[d] # deliveries'[d]) )
          => /\ d \notin DOMAIN deliveries
             /\ deliveries'[d].pc = "done"
             /\ deliveries'[d].resp = 400
             /\ UNCHANGED <<purchases, entitlements, roles, refundRequests>>]_vars

\* An unsigned body naming a stored, still unpaid purchase was refused.
C11_Witness ==
    /\ \E d \in DOMAIN deliveries : ~deliveries[d].ev.verified /\ deliveries[d].resp = 400
    /\ \E i \in DOMAIN purchases : purchases[i].status = "created"
    /\ roles = {}

\* C12: a webhook invocation receiving a signed checkout.session.completed
\* event that lacks purchase_id, guild_id, user_id or type, or names a guild
\* other than the allowed one, is answered 200 {received: true} in the step
\* that receives it, and that step leaves purchases, entitlements and roles
\* as they were; the invocation takes no further step.
C12_InvalidMetadataAcknowledged ==
    [][\A d \in DOMAIN deliveries' :
          ( /\ deliveries'[d].ev.verified
            /\ deliveries'[d].ev.type = "checkout.session.completed"
            /\ \/ deliveries'[d].ev.purchase_id = 0
               \/ deliveries'[d].ev.user_id = "none"
               \/ deliveries'[d].ev.mtype = "none"
               \/ deliveries'[d].ev.guild_id # "guild"
            /\ (d \notin DOMAIN deliveries \/ deliveries[d] # deliveries'[d]) )
          => /\ d \notin DOMAIN deliveries
             /\ deliveries'[d].pc = "done"
             /\ deliveries'[d].resp = 200
             /\ UNCHANGED <<purchases, entitlements, roles>>]_vars

\* An event of another guild and an event with a required field missing were
\* both acknowledged.
C12_Witness ==
    /\ \E d \in DOMAIN deliveries :
           /\ deliveries[d].ev.verified
           /\ deliveries[d].ev.guild_id = "other"
           /\ deliveries[d].resp = 200
    /\ \E d \in DOMAIN deliveries :
           /\ deliveries[d].ev.verified
           /\ deliveries[d].ev.type = "checkout.session.completed"
           /\ deliveries[d].ev.purchase_id = 0
           /\ deliveries[d].resp = 200

\* C13: a webhook invocation receiving a signed event whose type is none of
\* checkout.session.completed, customer.subscription.updated and
\* customer.subscription.deleted is answered 200 {received: true} in the step
\* that receives it, and that step leaves purchases, entitlements, refund
\* requests and roles as they were; the invocation takes no further step.
C13_UnknownTypeAcknowledged ==
    [][\A d \in DOMAIN deliveries' :
          ( /\ deliveries'[d].ev.verified
            /\ deliveries'[d].ev.type \notin
                  {"checkout.session.completed", "customer.subscription.updated",
                   "customer.subscription.deleted"}
            /\ (d \notin DOMAIN deliveries \/ deliveries[d] # deliveries'[d]) )
          => /\ d \notin DOMAIN deliveries
             /\ deliveries'[d].pc = "done"
             /\ deliveries'[d].resp = 200
             /\ UNCHANGED <<purchases, entitlements, refundRequests, roles>>]_vars

\* An event of an unhandled type was acknowledged while a paid purchase exists.
C13_Witness ==
    /\ \E d \in DOMAIN deliveries :
           deliveries[d].ev.type = "invoice.paid" /\ deliveries[d].resp = 200
    /\ \E i \in DOMAIN purchases : purchases[i].status = "paid"

\* Webhook invocations that ended after a store or processor call failed.
ThrownDeliveries ==
    {d \in DOMAIN deliveries :
        deliveries[d].pc = "done" /\ deliveries[d].faults \cap {"store", "processor"} # {}}

\* Pairs of a webhook invocation answered 500 and a later, fault-free and
\* finished invocation for the same checkout.session.completed event.
RetriedDeliveries ==
    {dd \in (DOMAIN deliveries) \X (DOMAIN deliveries) :
        /\ dd[1] < dd[2]
        /\ deliveries[dd[1]].resp = 500
        /\ dd[2] \in AnsweredDeliveries
        /\ deliveries[dd[2]].ev = deliveries[dd[1]].ev}

\* C14: a webhook invocation in which a store or processor call failed while
\* it processed a signed event with a branch is answered 500; and once the
\* retry of an event answered 500 has run to its end, the state is that of one
\* successful delivery: the retry is answered 200, one Purchase row exists for
\* the event's purchase ID and session ID and carries the event's payment and
\* subscription references and status paid (unless a refund has since been
\* written on it), and in the entitlement revision one Entitlement row exists
\* for the buyer and product, equal -- when no other session was delivered
\* and nothing was refunded -- to the row one delivery writes.
C14_ThrowAnswers500RetryConverges ==
    /\ \A d \in ThrownDeliveries : deliveries[d].resp = 500
    /\ \A dd \in RetriedDeliveries :
          LET ev == deliveries[dd[2]].ev
          IN /\ deliveries[dd[2]].resp = 200
             /\ Cardinality(RowsByPurchaseId(ev.purchase_id)) = 1
             /\ RowsBySessionId(ev.id) = RowsByPurchaseId(ev.purchase_id)
             /\ \A i \in RowsByPurchaseId(ev.purchase_id) :
                    /\ purchases[i].status = "paid" \/ RefundWritten(ev.purchase_id)
                    /\ purchases[i].stripePaymentIntentId = ev.payment_intent
                    /\ purchases[i].stripeSubscriptionId = ev.subscription
                    /\ purchases[i].paidAt >= 0
             /\ variant = "ent" =>
                   /\ Cardinality(EntitlementRows(ev.user_id, ev.product_id)) = 1
                   /\ ( /\ OnlyEventReceived(ev)
                        /\ \A h \in DOMAIN refundActions :
                               refundActions[h].outcome # "refunded" )
                      => \A i \in EntitlementRows(ev.user_id, ev.product_id) :
                             entitlements[i] = PaidEntitlement(ev)

\* A first attempt wrote the Purchase and the Entitlement and then threw, and
\* the retry of the same event has been answered.
C14_Witness ==
    /\ variant = "ent"
    /\ <<1, 2>> \in RetriedDeliveries
    /\ deliveries[1].faults = {"log_channel"}
    /\ entitlements # <<>>

\* Webhook invocations started by this step on a signed
\* customer.subscription.updated event and answered {received: true}.
UpdatedDeliveries ==
    {d \in DOMAIN deliveries' :
        /\ d \notin DOMAIN deliveries
        /\ deliveries'[d].ev.verified
        /\ deliveries'[d].ev.type = "customer.subscription.updated"
        /\ deliveries'[d].resp = 200}

C16_SubscriptionDeletedRemovesRoleAndMarks ==
    [][\A d \in DOMAIN deliveries :
          ( /\ deliveries[d].ev.type = "customer.subscription.deleted"
            /\ deliveries[d].purchase # NoPurchase
            /\ deliveries'[d] # deliveries[d]
            /\ deliveries'[d].faults = {} )
          => /\ deliveries[d].pc = "sub_role" =>
                   <<deliveries[d].purchase.userId,
                     sessions[deliveries[d].purchase.stripeSessionId].role_id>> \notin roles'
             /\ deliveries[d].pc = "sub_mark" =>
                   \A i \in DOMAIN purchases :
                       IF purchases[i].stripeSubscriptionId = deliveries[d].ev.subscription
                       THEN /\ purchases'[i].subscriptionStatus = "canceled"
                            /\ purchases'[i].subscriptionEndedAt >= 0
                       ELSE purchases'[i] = purchases[i]]_vars

\* Webhook invocations on a session's checkout.session.completed event that
\* have ended and in which the role grant, and no other call, failed.
RoleGrantFailedDeliveries ==
    {d \in DOMAIN deliveries :
        deliveries[d].pc = "done" /\ deliveries[d].faults = {"role_grant"}}

\* C17: a webhook invocation in which the role grant failed, once ended, has
\* answered 200 {received: true}; the Purchase of its event is paid (unless a
\* refund has since been written on it), and in the entitlement revision the
\* later step has run: the buyer has an Entitlement row for the product.
C17_RoleGrantFailureAcknowledged ==
    \A d \in RoleGrantFailedDeliveries :
        LET ev == deliveries[d].ev
        IN /\ deliveries[d].resp = 200
           /\ RowsByPurchaseId(ev.purchase_id) # {}
           /\ \A i \in RowsByPurchaseId(ev.purchase_id) :
                  purchases[i].status = "paid" \/ RefundWritten(ev.purchase_id)
           /\ variant = "ent" => EntitlementRows(ev.user_id, ev.product_id) # {}

\* The role grant failed in an invocation of the entitlement revision that
\* has ended: the buyer holds no role, and has the entitlement.
C17_Witness ==
    /\ variant = "ent"
    /\ RoleGrantFailedDeliveries # {}
    /\ roles = {}
    /\ entitlements # <<>>

\* The best-effort actions after the Purchase was set to paid: resolving or
\* creating the log channel, sending the log entry, reading the thanks
\* configuration, sending the thanks message, the DM.
BestEffortCalls == {"log_channel", "log_send", "thanks_config", "thanks_send", "dm"}

\* C18: a webhook invocation on a checkout.session.completed event in which
\* only best-effort actions failed, once ended, has answered 200; the buyer
\* holds the event's role, and in the entitlement revision has an Entitlement
\* row for the product.
C18_BestEffortFailureSwallowed ==
    \A d \in DOMAIN deliveries :
        ( /\ deliveries[d].pc = "done"
          /\ deliveries[d].ev.type = "checkout.session.completed"
          /\ deliveries[d].faults # {}
          /\ deliveries[d].faults \subseteq BestEffortCalls )
        => /\ deliveries[d].resp = 200
           /\ (\A h \in DOMAIN refundActions : refundActions[h].outcome # "refunded")
              => /\ <<deliveries[d].ev.user_id, deliveries[d].ev.role_id>> \in roles
                 /\ variant = "ent" =>
                       EntitlementRows(deliveries[d].ev.user_id,
                                       deliveries[d].ev.product_id) # {}

\* The decision the ownership gate is to take on an entitlement document.
GateAllows(ent, planKey, isUpgrade) ==
    \/ ent = NoEntitlement
    \/ ent.status # "active"
    \/ /\ ent.planKey # "lifetime"
       /\ isUpgrade
       /\ ent.planKey = "one_time"
       /\ planKey \in {"monthly", "annual"}
       /\ ent.stripeSubscriptionId = 0

\* C19: whatever the buyer's entitlement state for the product (absent,
\* revoked, active with any plan, with or without a subscription reference),
\* for every target plan and isUpgrade flag canStartCheckout allows exactly
\* when there is no active entitlement, or the attempt is an upgrade, the
\* owned plan is one_time, the target is monthly or annual and the
\* entitlement has no subscription reference; an active lifetime entitlement
\* and a non-upgrade attempt against an active entitlement are denied.  The
\* checkouts that were started obey the same table.
C19_CanStartCheckoutTable ==
    /\ \A userId \in Buyers, planKey \in DOMAIN ProductPrices, isUpgrade \in BOOLEAN :
          LET ent == getEntitlement(userId, ProductId)
          IN /\ canStartCheckout(userId, ProductId, planKey, isUpgrade)
                   <=> GateAllows(ent, planKey, isUpgrade)
             /\ (ent.status = "active" /\ ent.planKey = "lifetime")
                   => ~canStartCheckout(userId, ProductId, planKey, isUpgrade)
             /\ (ent.status = "active" /\ ~isUpgrade)
                   => ~canStartCheckout(userId, ProductId, planKey, isUpgrade)
    /\ \A c \in DOMAIN checkouts :
          \E isUpgrade \in BOOLEAN :
              GateAllows(getEntitlement(checkouts[c].userId, ProductId),
                         checkouts[c].planKey, isUpgrade)

\* An upgrade to monthly was started against an active one_time entitlement
\* without a subscription reference, and its Purchase row was stored.
C19_Witness ==
    /\ \E i \in DOMAIN entitlements :
           /\ entitlements[i].status = "active"
           /\ entitlements[i].planKey = "one_time"
           /\ entitlements[i].stripeSubscriptionId = 0
    /\ \E c \in DOMAIN checkouts : checkouts[c].planKey = "monthly" /\ checkouts[c].pc = "done"

\* The buyers whose entitlement for the product is active with plan lifetime.
LifetimeOwners ==
    {u \in Buyers : LET ent == getEntitlement(u, ProductId)
                    IN ent.status = "active" /\ ent.planKey = "lifetime"}

PaidBuyRows(u) ==
    {i \in DOMAIN purchases :
        /\ purchases[i].userId = u
        /\ purchases[i].status = "paid"
        /\ \E c \in DOMAIN checkouts :
              /\ checkouts[c].purchaseId = purchases[i].purchaseId
              /\ ~checkouts[c].isUpgrade}

\* C21: in the entitlement revision, however two buy actions of a user for
\* the product interleave with each other and with their paid events, at
\* most one of the checkouts they start ends as a paid Purchase.
C21_GateClosesDoubleBuy ==
    variant = "ent" => \A u \in Buyers : Cardinality(PaidBuyRows(u)) <= 1

\* The entitlements after the upsert of event ev was applied to col.
Upserted(col, ev) == UpsertEntitlement(col, entitlementIndex(col, ev), ev)

\* C22: after any deliveries, each buyer has at most one Entitlement row for
\* the product; and for the paid event of every session, applying the
\* entitlement upsert to the current rows once or twice gives the same rows,
\* in which the buyer's row is active and carries the event's plan,
\* subscription reference and reference code.
C22_EntitlementUpsertIdempotent ==
    /\ \A u \in Buyers : Cardinality(EntitlementRows(u, ProductId)) <= 1
    /\ \A s \in DOMAIN sessions :
          LET ev == CompletedEvent(s)
              once == Upserted(entitlements, ev)
          IN /\ Upserted(once, ev) = once
             /\ \A i \in DOMAIN once :
                    (once[i].userId = ev.user_id /\ once[i].productId = ev.product_id)
                    => /\ once[i].status = "active"
                       /\ once[i].planKey = ev.plan_key
                       /\ once[i].stripeSubscriptionId = ev.subscription
                       /\ once[i].referenceCode = ev.reference_code

\* The paid event of a checkout with a reference code has been processed
\* twice to its end, and the buyer has the one row it writes.
C22_Witness ==
    /\ Len(deliveries) = 2
    /\ deliveries[1].ev = deliveries[2].ev
    /\ \A d \in DOMAIN deliveries : deliveries[d].pc = "done" /\ deliveries[d].resp = 200
    /\ Len(entitlements) = 1
    /\ entitlements[1].referenceCode = "synex"

OpenTickets(userId, kind) ==
    {i \in DOMAIN tickets :
        tickets[i].userId = userId /\ tickets[i].kind = kind /\ tickets[i].status = "open"}

\* C23: in every reachable state there is at most one ticket record in
\* status open per (guild, user, kind), also when two open requests of the
\* same user for the same kind are handled concurrently.
C23_OneOpenTicketPerUserKind ==
    \A userId \in Buyers, kind \in TicketKinds :
        Cardinality(OpenTickets(userId, kind)) <= 1

\* open handlers that have got past the stale mark of the record they found
PastStale(o) ==
    /\ ticketOps[o].op = "open"
    /\ ticketOps[o].ticket # 0
    /\ ticketOps[o].pc \in {"create", "insert"} \/ ticketOps[o].result = "created"

RecordsOfChannel(channelId) == {i \in DOMAIN tickets : tickets[i].channelId = channelId}

\* C24: when opens run one after the other, an open that finds the open
\* record of its (user, kind) with the channel still there returns that
\* channel and record and neither creates a channel nor inserts a record;
\* when the channel was deleted, the open marks the old record stale,
\* creates a new channel and inserts exactly one new open record.
C24_OpenReusesOrReplaces ==
    [][/\ Len(ticketOps') > Len(ticketOps) /\ ticketOps'[Len(ticketOps')].op = "open"
          => LET op == ticketOps'[Len(ticketOps')] IN
             /\ op.ticket # 0 <=> OpenTickets(op.actor, op.kind) # {}
             /\ op.ticket # 0 => op.ticket \in OpenTickets(op.actor, op.kind)
             /\ UNCHANGED <<tickets, channels>>
       /\ \A o \in DOMAIN ticketOps :
             /\ ticketOps[o].op = "open" /\ ticketOps[o].pc = "fetch"
                   /\ ticketOps'[o].pc # "fetch"
                => IF tickets[ticketOps[o].ticket].channelId \in channels
                   THEN /\ ticketOps'[o].pc = "done"
                        /\ ticketOps'[o].result = "reused"
                        /\ ticketOps'[o].channel = tickets[ticketOps[o].ticket].channelId
                        /\ UNCHANGED <<tickets, channels>>
                   ELSE ticketOps'[o].pc = "stale"
             /\ PastStale(o)' => tickets'[ticketOps[o].ticket].status = "stale"
             /\ ticketOps[o].op = "open" /\ ticketOps[o].pc = "create"
                   /\ ticketOps'[o].pc # "create"
                => /\ ticketOps'[o].channel \notin channels
                   /\ channels' = channels \cup {ticketOps'[o].channel}
                   /\ RecordsOfChannel(ticketOps'[o].channel) = {}
                   /\ UNCHANGED tickets
             /\ ticketOps[o].op = "open" /\ ticketOps[o].pc = "insert"
                   /\ ticketOps'[o].pc # "insert"
                => /\ tickets' = Append(tickets, Ticket(ticketOps[o].channel,
                                                        ticketOps[o].actor, ticketOps[o].kind))
                   /\ ticketOps'[o].pc = "done"
                   /\ UNCHANGED channels]_vars

\* a second open has returned the channel of the first, and a third has
\* replaced the record whose channel was deleted
C24_Witness ==
    /\ \E o \in DOMAIN ticketOps :
          /\ ticketOps[o].op = "open"
          /\ ticketOps[o].pc = "done"
          /\ ticketOps[o].result = "reused"
    /\ \E o \in DOMAIN ticketOps :
          /\ ticketOps[o].op = "open"
          /\ ticketOps[o].pc = "done"
          /\ ticketOps[o].result = "created"
          /\ ticketOps[o].ticket # 0
          /\ tickets[ticketOps[o].ticket].status = "stale"
          /\ Cardinality(OpenTickets(ticketOps[o].actor, ticketOps[o].kind)) = 1

\* the actors the claim lets close a ticket
MayClose(actor, ticket) ==
    \/ actor = ticket.userId
    \/ isAdmin(actor)
    \/ /\ configStore.supportRoleId # "none"
       /\ <<actor, configStore.supportRoleId>> \in roles

\* C25: a close action on an open ticket goes ahead if and only if the
\* actor is the ticket owner, an administrator or a holder of the
\* configured support role; for every other actor the ticket records and
\* the channels stay as they are.
C25_CloseOnlyByOwnerAdminSupport ==
    [][Len(ticketOps') > Len(ticketOps)
          /\ ticketOps'[Len(ticketOps')].op = "close"
          /\ ticketOps'[Len(ticketOps')].ticket # 0
       => LET op == ticketOps'[Len(ticketOps')] IN
          /\ op.pc = "fetch" <=> MayClose(op.actor, tickets[op.ticket])
          /\ ~MayClose(op.actor, tickets[op.ticket])
                => /\ op.pc = "done"
                   /\ op.result = "denied"
                   /\ UNCHANGED <<tickets, channels>>]_vars

\* a step taken by a close handler
CloseStep ==
    \/ /\ Len(ticketOps') > Len(ticketOps)
       /\ ticketOps'[Len(ticketOps')].op = "close"
    \/ \E o \in DOMAIN ticketOps :
          ticketOps[o].op = "close" /\ ticketOps'[o] # ticketOps[o]

\* C26: a close action on a ticket that is not open, the second of two
\* concurrent closes included, is reported as an invalid target or changes
\* nothing: no step of a close handler changes a record that is not open,
\* so status, closedBy and closedAt of the first close stay.
C26_CloseIdempotent ==
    [][CloseStep
       => /\ \A i \in DOMAIN tickets :
                tickets[i].status # "open" => tickets'[i] = tickets[i]
          /\ Len(ticketOps') > Len(ticketOps)
                 /\ findTicketByChannel(tickets, ticketOps'[Len(ticketOps')].channel) = 0
              => /\ ticketOps'[Len(ticketOps')].pc = "done"
                 /\ ticketOps'[Len(ticketOps')].result = "invalid"
                 /\ UNCHANGED <<tickets, channels>>]_vars

\* two closes of the same ticket by different actors have both run to
\* their end, and the record names the first of them
C26_Witness ==
    \E o1, o2 \in DOMAIN ticketOps :
          /\ o1 # o2
          /\ ticketOps[o1].op = "close" /\ ticketOps[o2].op = "close"
          /\ ticketOps[o1].ticket = ticketOps[o2].ticket
          /\ ticketOps[o1].actor # ticketOps[o2].actor
          /\ ticketOps[o1].result = "closed" /\ ticketOps[o2].result = "closed"
          /\ tickets[ticketOps[o1].ticket].status = "closed"
          /\ tickets[ticketOps[o1].ticket].closedBy = ticketOps[o1].actor

\* getConfig calls that began when every earlier upsertConfig had completed
\* and have returned
SettledReads ==
    {o \in DOMAIN configOps :
        configOps[o].op = "get" /\ configOps[o].pc = "done" /\ configOps[o].quiet}

\* patches of the upsertConfig calls that began after call o
LaterPatches(o) ==
    {configOps[u].patch : u \in {u \in DOMAIN configOps : u > o /\ configOps[u].op = "upsert"}}

\* C27: once upsertConfig has completed, every later getConfig returns a
\* config that reflects the patch (or the patch of a still later
\* upsertConfig), also when another getConfig had read the store but not yet
\* written the cache while the upsert ran.
C27_ReadAfterUpsertIsFresh ==
    \A o \in SettledReads :
        \/ configOps[o].doc = configOps[o].store
        \/ configOps[o].doc.supportRoleId \in LaterPatches(o)

\* The amount a string denotes, read off the string itself (white space
\* around it aside): digits, then optionally a point and one or two digits.
IsDecimal(str) ==
    \E n \in 1..Len(str) :
        /\ \A i \in 1..n : isDigit(str[i])
        /\ \/ n = Len(str)
           \/ /\ n + 1 < Len(str)
              /\ Len(str) <= n + 3
              /\ str[n + 1] = "."
              /\ \A i \in (n + 2)..Len(str) : isDigit(str[i])

IsPositive(str) == \E i \in DOMAIN str : isDigit(str[i]) /\ str[i] # "0"

\* its digits before the point without leading zeros, and after the point
WholeDigits(str) == stripZeros(SubSeq(str, 1, IF dotAt(str) = 0 THEN Len(str) ELSE dotAt(str) - 1))
FractionDigits(str) ==
    [i \in 1..2 |-> IF dotAt(str) # 0 /\ dotAt(str) + i <= Len(str)
                     THEN str[dotAt(str) + i] ELSE "0"]

\* the number of minor units it denotes
ExpectedMinor(str) ==
    100 * Number(WholeDigits(str))
        + 10 * digitValue(FractionDigits(str)[1]) + digitValue(FractionDigits(str)[2])

\* the same value written with exactly two decimals
ExpectedDisplay(str) ==
    <<"GBP">> \o (IF WholeDigits(str) = <<>> THEN <<"0">> ELSE WholeDigits(str))
        \o <<".">> \o FractionDigits(str)

\* whole parts of at most 13 digits keep the minor units below 2^53, where
\* doubles are exact
ExactDigits == 13

\* C28 as stated: for every string that is an unsigned decimal with at most
\* two fractional digits and a positive value, amountToMinorUnits returns
\* the positive number of minor units and minorToDisplay of it shows the
\* same value with exactly two decimals; for every other string
\* amountToMinorUnits returns null.
C28_AmountRoundTrip ==
    amountOut.done
    => IF IsDecimal(trim(amountStr)) /\ IsPositive(trim(amountStr))
       THEN /\ amountOut.minor # Null
            /\ amountOut.display = ExpectedDisplay(trim(amountStr))
            /\ Len(WholeDigits(trim(amountStr))) <= MaxAmountLen
                  => amountOut.minor = ExpectedMinor(trim(amountStr))
       ELSE amountOut.minor = Null

\* C28 (amended): the round trip holds for the decimals whose minor units
\* are exact as a double; a string that is no positive decimal with at
\* most two fractional digits, and a decimal whose value times 100 is not
\* a finite double, give null.
C28_AmountRoundTripWhereExact ==
    amountOut.done
    => IF ~(IsDecimal(trim(amountStr)) /\ IsPositive(trim(amountStr)))
       THEN amountOut.minor = Null
       ELSE /\ Len(WholeDigits(trim(amountStr))) >= INFINITE_DIGITS
                  => amountOut.minor = Null
            /\ Len(WholeDigits(trim(amountStr))) <= ExactDigits
                  => /\ amountOut.minor = ExpectedMinor(trim(amountStr))
                     /\ amountOut.minor > 0
                     /\ amountOut.display = ExpectedDisplay(trim(amountStr))

\* " 1.9" has been converted to 190 and shown as 1.90
C28_Witness ==
    /\ amountOut.done
    /\ amountStr = <<" ", "1", ".", "9">>
    /\ amountOut.minor = 190
    /\ amountOut.display = <<"GBP", "1", ".", "9", "0">>

\* rows that carry the purchase id and the session id of a checkout
RowsOfCheckout(col, c) ==
    {i \in DOMAIN col :
        col[i].purchaseId = c.purchaseId /\ col[i].stripeSessionId = c.sessionId}

\* a verified paid event for the session of a checkout has been received
PaidEventReceived(c) ==
    \E d \in DOMAIN deliveries :
        /\ deliveries[d].ev.verified
        /\ deliveries[d].ev.type = "checkout.session.completed"
        /\ deliveries[d].ev.id = c.sessionId

\* C29: whenever a product checkout returns a checkout URL, a Purchase row
\* with that purchase id and the returned session id exists already (in
\* status created unless a paid event for it was reconciled before); no URL
\* is handed out for which no Purchase row exists.
C29_UrlOnlyAfterPurchaseRow ==
    [][\A c \in DOMAIN checkouts' :
          checkouts'[c].url
          => /\ RowsOfCheckout(purchases', checkouts'[c]) # {}
             /\ ~checkouts[c].url
                   => \E i \in RowsOfCheckout(purchases', checkouts'[c]) :
                         \/ purchases'[i].status = "created"
                         \/ PaidEventReceived(checkouts[c])]_vars

\* a checkout has returned its URL and its row is there in status created
C29_Witness ==
    \E c \in DOMAIN checkouts :
        /\ checkouts[c].url
        /\ \E i \in RowsOfCheckout(purchases, checkouts[c]) : purchases[i].status = "created"

\* deliveries that have sent the upsell DM for a purchase
UpsellDms(purchaseId) ==
    {d \in DOMAIN deliveries : deliveries[d].dm /\ deliveries[d].ev.purchase_id = purchaseId}

\* C30: the upsell DM to a one-time buyer is sent at most once per
\* purchase; a redelivery of the same paid event does not send it again.
C30_UpsellDmOncePerPurchase ==
    \A c \in DOMAIN checkouts : Cardinality(UpsellDms(checkouts[c].purchaseId)) <= 1

\* The call isCooling(key) last accepted before call i, 0 when there is none.
LastAccepted(i) ==
    LET accepted == {j \in 1..(i - 1) :
                        coolCalls[j].key = coolCalls[i].key /\ ~coolCalls[j].cooling}
    IN IF accepted = {} THEN 0
       ELSE CHOOSE j \in accepted : \A k \in accepted : k <= j

\* C32: isCooling(key) returns false and records the time on the first call
\* for a key and on a call at least 2000 ms after the last accepted call for
\* that key; it returns true on a call less than 2000 ms after the last
\* accepted call, whatever rejected calls and calls with other keys came in
\* between; the Map holds for each key the time of its last accepted call.
C32_CooldownPerKey ==
    /\ \A i \in DOMAIN coolCalls :
          LET j == LastAccepted(i)
          IN coolCalls[i].cooling =
                (j # 0 /\ coolCalls[i].at - coolCalls[j].at < ACTION_COOLDOWN_MS)
    /\ \A key \in CooldownKeys :
          LET accepted == {j \in DOMAIN coolCalls :
                              coolCalls[j].key = key /\ ~coolCalls[j].cooling}
          IN IF accepted = {} THEN cooldownGet(cooldown, key) = 0
             ELSE \E j \in accepted :
                     /\ \A k \in accepted : k <= j
                     /\ cooldownGet(cooldown, key) = coolCalls[j].at

\* A key is accepted, rejected a millisecond before the interval is over, and
\* accepted again a millisecond later: the rejected call did not extend it.
C32_Witness ==
    /\ Len(coolCalls) = 3
    /\ \A i \in 1..3 : coolCalls[i].key = coolCalls[1].key
    /\ ~coolCalls[1].cooling
    /\ coolCalls[2].cooling /\ coolCalls[2].at = coolCalls[1].at + ACTION_COOLDOWN_MS - 1
    /\ ~coolCalls[3].cooling /\ coolCalls[3].at = coolCalls[1].at + ACTION_COOLDOWN_MS

\* Who may decide on a refund: the designated approver and, in the revision
\* that admits them, the administrators.
MayDecide(actor) ==
    actor = REFUND_APPROVER_USER_ID \/ (variant = "ent" /\ actor \in Admins)

\* What a refund decision can touch.
RefundEffects ==
    <<refundRequests, purchases, stripeRefunds, canceledSubs, roles, entitlements,
      refundActions>>

\* C31: an approve or reject press by an actor who is neither the designated
\* approver nor (where administrators are admitted) an administrator is
\* answered with the denial and changes nothing: no request, purchase,
\* processor refund, cancellation, role or entitlement changes, and no
\* handler run of such an actor ever gets past the check.
C31_UnauthorizedPressChangesNothing ==
    [][ /\ \A actor \in Actors, action \in {"refund_approve", "refund_reject"},
              requestId \in 1..MaxRefundRequests :
              (~MayDecide(actor) /\ RefundButton(actor, action, requestId))
                 => (refusals' = refusals + 1 /\ UNCHANGED RefundEffects)
        /\ refusals' # refusals => UNCHANGED RefundEffects
        /\ \A h \in DOMAIN refundActions' : MayDecide(refundActions'[h].actor) ]_vars

\* A press was refused while the request is pending and the purchase paid.
C31_Witness ==
    /\ refusals > 0
    /\ \E r \in DOMAIN refundRequests :
          /\ refundRequests[r].status = "pending"
          /\ findPurchase(refundRequests[r].purchaseId).status = "paid"
    /\ stripeRefunds = <<>>

\* C33: the paidAt of a purchase is fixed by its first transition to paid; no
\* later step, a redelivered checkout.session.completed event included,
\* moves it.
C33_PaidAtFixedByFirstPayment ==
    [][ \A i \in DOMAIN purchases :
           purchases[i].paidAt # -1 => purchases'[i].paidAt = purchases[i].paidAt ]_vars

\* The entitlement rows of the buyer and product of an event that are active.
ActiveEntitlements(col, ev) ==
    {i \in DOMAIN col :
        /\ col[i].userId = ev.user_id
        /\ col[i].productId = ev.product_id
        /\ col[i].status = "active"}

\* C34: a step of a webhook invocation whose checkout.session.completed event
\* arrived when its purchase was already refunded neither gives the buyer the
\* product role nor makes the buyer's entitlement active.
C34_NoRegrantAfterRefund ==
    [][ \A d \in DOMAIN deliveries :
           (deliveries[d].afterRefund /\ deliveries'[d] # deliveries[d])
              => LET ev == deliveries[d].ev
                 IN /\ <<ev.user_id, ev.role_id>> \in roles'
                          => <<ev.user_id, ev.role_id>> \in roles
                    /\ ActiveEntitlements(entitlements', ev)
                          \subseteq ActiveEntitlements(entitlements, ev) ]_vars

\* C35: no step replaces the plan of an active lifetime entitlement.
C35_LifetimeNeverReplaced ==
    [][ \A i \in DOMAIN entitlements :
           (entitlements[i].status = "active" /\ entitlements[i].planKey = "lifetime")
              => entitlements'[i].planKey = "lifetime" ]_vars

\* executeRefundInternal calls the processor for this purchase: a refund of
\* its payment intent, or the retrieval and cancellation of its subscription.
CallsProcessor(purchase) ==
    purchase.stripePaymentIntentId # 0 \/ purchase.stripeSubscriptionId # 0

\* Handler h runs executeRefundInternal in this step.
ExecutesRefund(h) ==
    /\ refundActions[h].pc = "execute"
    /\ refundActions'[h].pc # "execute"

\* Handler h read its purchase when the approval of another request for the
\* same purchase had already written it refunded.
ApprovedAfterRefund(h) ==
    /\ refundActions[h].purchase.status = "refunded"
    /\ \E g \in DOMAIN refundActions :
          /\ refundActions[g].requestId # refundActions[h].requestId
          /\ refundActions[g].purchase.purchaseId = refundActions[h].purchase.purchaseId
          /\ refundActions[g].pc = "finish" \/ refundActions[g].outcome = "refunded"

\* C36: when several refund requests target one purchase, the approval of a
\* later one that finds the purchase already refunded makes no processor
\* call (no refund, no subscription retrieval or cancellation), so the
\* processor refund of a purchase is executed at most once.
C36_RefundExecutedOncePerPurchase ==
    [][ \A h \in DOMAIN refundActions :
           (ExecutesRefund(h) /\ CallsProcessor(refundActions[h].purchase))
              => ~ApprovedAfterRefund(h) ]_vars

\* C39: a refund revokes no entitlement that reflects another purchase which
\* is still paid: an active entitlement whose lastPurchaseId names a paid
\* purchase stays active.
C39_RefundRevokesOwnEntitlementOnly ==
    [][ \A i \in DOMAIN entitlements :
           (/\ entitlements[i].status = "active"
            /\ findPurchase(entitlements[i].lastPurchaseId).status = "paid")
              => entitlements'[i].status = "active" ]_vars

\* The gate admits a fresh purchase of the product by the user, for some
\* plan on sale.
GateAdmits(userId, productId) ==
    \E planKey \in DOMAIN ProductPrices :
        planEnabled(planKey) /\ canStartCheckout(userId, productId, planKey, FALSE)

\* This step is a whole webhook invocation that answers 200 to the signed
\* customer.subscription.deleted event of subscription sub.
AnswersSubscriptionDeleted(sub) ==
    /\ Len(deliveries') = Len(deliveries) + 1
    /\ LET d == deliveries'[Len(deliveries')]
       IN /\ d.pc = "done"
          /\ d.resp = 200
          /\ d.ev.verified
          /\ d.ev.type = "customer.subscription.deleted"
          /\ d.ev.subscription = sub

\* C37: an entitlement does not outlive its subscription.  When no handler
\* is running and the subscription-deleted event of the subscription behind
\* an active entitlement is processed, the gate stops denying on the basis of
\* that entitlement: the user can start a fresh purchase of the product.
C37_EndedSubscriptionReopensGate ==
    [][ \A i \in DOMAIN entitlements :
           (/\ Quiescent
            /\ entitlements[i].status = "active"
            /\ entitlements[i].stripeSubscriptionId # 0
            /\ AnswersSubscriptionDeleted(entitlements[i].stripeSubscriptionId))
              => GateAdmits(entitlements[i].userId, entitlements[i].productId)' ]_vars

\* C38: every paid product purchase row records the role granted for it and
\* its product, as the metadata of its checkout session names them, also
\* when the webhook reconstructed the row because the local one was missing.
C38_PaidRowRecordsRoleAndProduct ==
    \A i \in DOMAIN purchases :
        (/\ purchases[i].status = "paid"
         /\ purchases[i].type = "product"
         /\ purchases[i].stripeSessionId \in DOMAIN sessions)
           => LET session == sessions[purchases[i].stripeSessionId]
              IN /\ purchases[i].roleId = session.role_id
                 /\ purchases[i].productId = session.product_id

\* Checkout c runs its insertOne in this step.
InsertsRow(c) ==
    checkouts[c].pc = "insert" /\ checkouts'[c].pc # "insert"

\* C40: when the paid event of a checkout session was processed before the
\* initiator's insertOne, so that the paid row is there already, the late
\* insert changes no purchase row: afterwards exactly one row carries the
\* purchase id, exactly one the session id, and that row is still paid.
C40_LateInsertKeepsOnePaidRow ==
    [][ \A c \in DOMAIN checkouts :
           (/\ InsertsRow(c)
            /\ \E i \in RowsOfCheckout(purchases, checkouts[c]) : purchases[i].status = "paid")
              => /\ purchases' = purchases
                 /\ Cardinality({i \in DOMAIN purchases' :
                        purchases'[i].purchaseId = checkouts[c].purchaseId}) = 1
                 /\ Cardinality({i \in DOMAIN purchases' :
                        purchases'[i].stripeSessionId = checkouts[c].sessionId}) = 1
                 /\ \A i \in RowsOfCheckout(purchases', checkouts[c]) :
                        purchases'[i].status = "paid" ]_vars

\* The insertOne of a checkout has failed on the row the webhook wrote, and
\* that row is the only one of the checkout and paid.
C40_Witness ==
    \E c \in DOMAIN checkouts :
        /\ checkouts[c].pc = "failed"
        /\ Cardinality(RowsByPurchaseId(checkouts[c].purchaseId)) = 1
        /\ \E i \in RowsOfCheckout(purchases, checkouts[c]) : purchases[i].status = "paid"
====
